---- MODULE Spec2Model ----
(***************************************************************************)
(* State-machine model of bcdi/experiment/experiment_utils.py:             *)
(*   - the geometry classes Setup and SetupPostprocessing (attribute       *)
(*     setters, sign coefficients, update_coords, voxel_sizes,             *)
(*     orthogonalize, detector_frame, orthogonalize_vector,                *)
(*     voxel_sizes_detector, the coordinate grids and the interpolation),  *)
(*   - Detector.__init__ and Detector.mask_detector.                       *)
(*                                                                         *)
(* Representation of Python values                                         *)
(*   a Python value   : a record [tag, v, d, s, vec]; tag "None" is None,  *)
(*                      "num" the Number v / d, "str" the string s,        *)
(*                      "tuple" the tuple of numbers vec; d = 0 is NaN.    *)
(*   angles           : a detector angle or a grazing angle is an index k  *)
(*                      into AngleTable, which gives 5*cos and 5*sin of    *)
(*                      the angle exactly (3-4-5 triangles); index 0 is    *)
(*                      the angle 0.                                       *)
(*   lengths, tilt    : integers in arbitrary positive units; a quantity   *)
(*                      divided by an array length is the exact quotient   *)
(*                      v / d in lowest terms.                             *)
(*   matrices         : a record [m, den, inv_t]: m the rows of an integer *)
(*                      matrix, den a positive integer; the record stands  *)
(*                      for A = (2 pi / 125) * m / den when inv_t is FALSE *)
(*                      and for 2 pi * inverse(A) transposed when TRUE.    *)
(***************************************************************************)
EXTENDS Integers, Sequences, FiniteSets, TLC

VARIABLES
    obj,      \* the Setup / SetupPostprocessing object, NoObject before construction
    res,      \* outcome of the last operation on obj: what was called, how it ended
    vol,      \* the 3-D array handed to orthogonalize / detector_frame
    det,      \* Detector.name
    data,     \* the caller's data array handed to mask_detector
    mask,     \* the caller's mask array handed to mask_detector
    ret       \* what the last mask_detector call returned or raised

vars == <<obj, res, vol, det, data, mask, ret>>

(***************************************************************************)
(* Python values.                                                          *)
(***************************************************************************)
NoneV == [tag |-> "None", v |-> 0, d |-> 1, s |-> "", vec |-> <<>>]
Num(n) == [tag |-> "num", v |-> n, d |-> 1, s |-> "", vec |-> <<>>]
Str(s) == [tag |-> "str", v |-> 0, d |-> 1, s |-> s, vec |-> <<>>]
Tup(t) == [tag |-> "tuple", v |-> 0, d |-> 1, s |-> "", vec |-> t]

IsNone(x) == x.tag = "None"
IsNumber(x) == x.tag = "num"
IsStr(x) == x.tag = "str"
IsTuple(x) == x.tag = "tuple"

\* float('nan'): a Number that no comparison holds for
NaN == [tag |-> "num", v |-> 0, d |-> 0, s |-> "", vec |-> <<>>]
\* x <= n and x < n for a Number x and an integer n
LessEqual(x, n) == x.d # 0 /\ x.v <= n * x.d
Less(x, n) == x.d # 0 /\ x.v < n * x.d

NoObject == [cls |-> "none"]
NoResult == [op |-> "none", status |-> "none"]
NoMatrix == [m |-> <<>>, den |-> 1, inv_t |-> FALSE]
NoVolume == [shape |-> <<>>, frame |-> "none", voxel_size |-> <<>>,
             orthogonalized_with |-> NoMatrix, framed_with |-> NoMatrix]

Beamlines == {"ID01", "SIXS_2018", "SIXS_2019", "34ID", "P10", "CRISTAL", "NANOMAX"}

\* squared Euclidean norm and np.linalg.norm of an integer 3-vector; the
\* vectors of the model have an integer norm
NormSq(vec) == vec[1] * vec[1] + vec[2] * vec[2] + vec[3] * vec[3]
Norm(vec) == CHOOSE n \in 0..(NormSq(vec) + 1) : n * n = NormSq(vec)

(***************************************************************************)
(* Setup: the property setters.  Each takes the object and the assigned    *)
(* value and gives [status, o]: "ok" and the updated object, or the        *)
(* exception raised and the object as it was.                              *)
(***************************************************************************)
Ok(o) == [status |-> "ok", o |-> o]
Raise(exc, o) == [status |-> exc, o |-> o]

\* faulty variant: the value is stored before it is checked
beamline_setter_stores_first(o, value) ==
    IF value \notin {Str(b) : b \in Beamlines}
    THEN Raise("ValueError", [o EXCEPT !.beamline = value])
    ELSE Ok([o EXCEPT !.beamline = value])

beamline_setter(o, value) ==
    IF value \notin {Str(b) : b \in Beamlines}
    THEN Raise("ValueError", o)
    ELSE Ok([o EXCEPT !.beamline = value])

\* stores value / np.linalg.norm(value): the vector with its norm as divisor
beam_direction_setter(o, value) ==
    IF ~IsTuple(value) \/ Len(value.vec) # 3
    THEN Raise("ValueError", o)
    ELSE IF Norm(value.vec) = 0
    THEN Raise("ValueError", o)
    ELSE Ok([o EXCEPT !.beam_direction = [vec |-> value.vec, norm |-> Norm(value.vec)]])

energy_setter(o, value) ==
    IF IsNone(value)
    THEN Ok([o EXCEPT !.energy = value])
    ELSE IF ~IsNumber(value)
    THEN Raise("TypeError", o)
    ELSE IF LessEqual(value, 0)
    THEN Raise("ValueError", o)
    ELSE Ok([o EXCEPT !.energy = value])

distance_setter(o, value) ==
    IF IsNone(value)
    THEN Ok([o EXCEPT !.distance = value])
    ELSE IF ~IsNumber(value)
    THEN Raise("TypeError", o)
    ELSE IF LessEqual(value, 0)
    THEN Raise("ValueError", o)
    ELSE Ok([o EXCEPT !.distance = value])

outofplane_angle_setter(o, value) ==
    IF ~IsNumber(value) /\ ~IsNone(value)
    THEN Raise("TypeError", o)
    ELSE Ok([o EXCEPT !.outofplane_angle = value])

inplane_angle_setter(o, value) ==
    IF ~IsNumber(value) /\ ~IsNone(value)
    THEN Raise("TypeError", o)
    ELSE Ok([o EXCEPT !.inplane_angle = value])

tilt_angle_setter(o, value) ==
    IF ~IsNumber(value) /\ ~IsNone(value)
    THEN Raise("TypeError", o)
    ELSE Ok([o EXCEPT !.tilt_angle = value])

rocking_angle_setter(o, value) ==
    IF IsNone(value)
    THEN Ok([o EXCEPT !.rocking_angle = value])
    ELSE IF ~IsStr(value)
    THEN Raise("TypeError", o)
    ELSE IF value \notin {Str("outofplane"), Str("inplane")}
    THEN Raise("ValueError", o)
    ELSE Ok([o EXCEPT !.rocking_angle = value])

pixel_x_setter(o, value) ==
    IF IsNone(value)
    THEN Ok([o EXCEPT !.pixel_x = value])
    ELSE IF ~IsNumber(value)
    THEN Raise("TypeError", o)
    ELSE IF LessEqual(value, 0)
    THEN Raise("ValueError", o)
    ELSE Ok([o EXCEPT !.pixel_x = value])

\* faulty variant: zero passes the range check (< in place of <=)
pixel_y_setter_accepts_zero(o, value) ==
    IF IsNone(value)
    THEN Ok([o EXCEPT !.pixel_y = value])
    ELSE IF ~IsNumber(value)
    THEN Raise("TypeError", o)
    ELSE IF Less(value, 0)
    THEN Raise("ValueError", o)
    ELSE Ok([o EXCEPT !.pixel_y = value])

pixel_y_setter(o, value) ==
    IF IsNone(value)
    THEN Ok([o EXCEPT !.pixel_y = value])
    ELSE IF ~IsNumber(value)
    THEN Raise("TypeError", o)
    ELSE IF LessEqual(value, 0)
    THEN Raise("ValueError", o)
    ELSE Ok([o EXCEPT !.pixel_y = value])

\* attribute assignment o.attr = value on a Setup: the property setter runs
SetAttr(o, attr, value) ==
    CASE attr = "beamline" -> beamline_setter(o, value)
      [] attr = "beam_direction" -> beam_direction_setter(o, value)
      [] attr = "energy" -> energy_setter(o, value)
      [] attr = "distance" -> distance_setter(o, value)
      [] attr = "outofplane_angle" -> outofplane_angle_setter(o, value)
      [] attr = "inplane_angle" -> inplane_angle_setter(o, value)
      [] attr = "tilt_angle" -> tilt_angle_setter(o, value)
      [] attr = "rocking_angle" -> rocking_angle_setter(o, value)
      [] attr = "pixel_x" -> pixel_x_setter(o, value)
      [] attr = "pixel_y" -> pixel_y_setter(o, value)

\* the assignments of Setup.__init__ in their order: the first that raises
\* ends the constructor
RECURSIVE AssignAll(_, _)
AssignAll(o, pairs) ==
    IF pairs = <<>>
    THEN Ok(o)
    ELSE LET out == SetAttr(o, Head(pairs)[1], Head(pairs)[2])
         IN  IF out.status # "ok" THEN out ELSE AssignAll(out.o, Tail(pairs))

\* the object when __init__ starts assigning the properties: attrs are the
\* plain instance attributes set from the kwargs (the properties come on top of
\* them); grazing_angle is not among them and no property has that name
BlankSetup ==
    [cls |-> "Setup",
     attrs |-> {"direct_beam", "filtered_data", "is_orthogonal", "custom_scan",
                "custom_images", "custom_monitor", "custom_motors", "sample_inplane",
                "sample_outofplane", "sample_offsets", "offset_inplane"},
     beamline |-> NoneV, beam_direction |-> [vec |-> <<>>, norm |-> 0],
     energy |-> NoneV, distance |-> NoneV, outofplane_angle |-> NoneV,
     inplane_angle |-> NoneV, tilt_angle |-> NoneV, rocking_angle |-> NoneV,
     pixel_x |-> NoneV, pixel_y |-> NoneV, grazing_angle |-> NoneV]

Setup_init(beamline, beam_direction, energy, distance, outofplane_angle, inplane_angle, tilt_angle, rocking_angle, pixel_x, pixel_y) ==
    AssignAll(BlankSetup,
              << <<"beamline", beamline>>, <<"beam_direction", beam_direction>>,
                 <<"energy", energy>>, <<"distance", distance>>,
                 <<"outofplane_angle", outofplane_angle>>,
                 <<"inplane_angle", inplane_angle>>, <<"tilt_angle", tilt_angle>>,
                 <<"rocking_angle", rocking_angle>>,
                 <<"pixel_x", pixel_x>>, <<"pixel_y", pixel_y>> >>)

(***************************************************************************)
(* Derived read-only properties of Setup.                                  *)
(***************************************************************************)
detector_hor(o) ==
    IF o.beamline \in {Str("ID01"), Str("SIXS_2018"), Str("SIXS_2019"), Str("CRISTAL"), Str("NANOMAX")}
    THEN "y+"
    ELSE "y-"

detector_ver(o) ==
    IF o.beamline \in {Str("ID01"), Str("SIXS_2018"), Str("SIXS_2019"), Str("CRISTAL"),
                       Str("NANOMAX"), Str("P10"), Str("34ID")}
    THEN "z-"
    ELSE "z+"

\* faulty variant: the rotation sense of ID01 is taken as anti-clockwise
inplane_coeff_id01_anticlockwise(o) ==
    LET hor_coeff == IF detector_hor(o) = "y+" THEN 1 ELSE -1
    IN  IF o.beamline \in {Str("SIXS_2018"), Str("SIXS_2019"), Str("ID01"), Str("34ID"),
                           Str("P10"), Str("CRISTAL")}
        THEN [status |-> "ok", val |-> 1 * hor_coeff]
        ELSE IF o.beamline = Str("NANOMAX")
        THEN [status |-> "ok", val |-> (-1) * hor_coeff]
        ELSE [status |-> "ValueError", val |-> 0]

\* [status, val]: the coefficient, or the exception of the final else branch
inplane_coeff(o) ==
    LET hor_coeff == IF detector_hor(o) = "y+" THEN 1 ELSE -1
    IN  IF o.beamline = Str("SIXS_2018") \/ o.beamline = Str("SIXS_2019")
        THEN [status |-> "ok", val |-> 1 * hor_coeff]
        ELSE IF o.beamline = Str("ID01")
        THEN [status |-> "ok", val |-> (-1) * hor_coeff]
        ELSE IF o.beamline = Str("34ID")
        THEN [status |-> "ok", val |-> 1 * hor_coeff]
        ELSE IF o.beamline = Str("P10")
        THEN [status |-> "ok", val |-> 1 * hor_coeff]
        ELSE IF o.beamline = Str("CRISTAL")
        THEN [status |-> "ok", val |-> 1 * hor_coeff]
        ELSE IF o.beamline = Str("NANOMAX")
        THEN [status |-> "ok", val |-> (-1) * hor_coeff]
        ELSE [status |-> "ValueError", val |-> 0]

outofplane_coeff(o) ==
    LET ver_coeff == IF detector_ver(o) = "z+" THEN 1 ELSE -1
    IN  [status |-> "ok", val |-> (-1) * ver_coeff]

(***************************************************************************)
(* Inputs of the attribute life cycle.                                     *)
(***************************************************************************)
NumberInputs == {NoneV, Str("abc"), Num(-1), Num(0), Num(1)}
AngleInputs == {NoneV, Str("abc"), Num(0)}
BeamlineInputs == {Str(b) : b \in Beamlines} \cup {Str("BM02"), NoneV}
RockingInputs == {NoneV, Num(1), Str("outofplane"), Str("inplane"), Str("energy")}
DirectionInputs == {Tup(<<1, 0, 0>>), Tup(<<0, 3, 4>>), Tup(<<0, 0, 0>>), Tup(<<1, 0>>), Num(1)}

SetupAttributes ==
    {"beamline", "beam_direction", "energy", "distance", "outofplane_angle",
     "inplane_angle", "tilt_angle", "rocking_angle", "pixel_x", "pixel_y"}

InputsOf(attr) ==
    CASE attr = "beamline" -> BeamlineInputs
      [] attr = "beam_direction" -> DirectionInputs
      [] attr = "energy" -> NumberInputs \cup {NaN}
      [] attr \in {"distance", "pixel_x", "pixel_y"} -> NumberInputs
      [] attr \in {"outofplane_angle", "inplane_angle", "tilt_angle"} -> AngleInputs
      [] attr = "rocking_angle" -> RockingInputs

\* the numbers the constructor is called with
CtorNumbers == {NoneV, Num(-1), Num(0), Num(1)}
CtorAngles == {NoneV, Num(0)}

IdleDetector ==
    /\ det = "none"
    /\ data = <<>>
    /\ mask = <<>>
    /\ ret = NoResult

(***************************************************************************)
(* Life cycle of a Setup: construction, attribute assignments, reads of    *)
(* the sign coefficients.                                                  *)
(***************************************************************************)
Init ==
    /\ obj = NoObject
    /\ res = NoResult
    /\ vol = NoVolume
    /\ IdleDetector

\* Setup(beamline, beam_direction, energy, ...), the first operation of a run:
\* an object results only when no assignment of __init__ raised
Construct ==
    /\ obj = NoObject
    /\ res = NoResult
    /\ \E beamline \in BeamlineInputs, beam_direction \in DirectionInputs,
          energy \in CtorNumbers, distance \in CtorNumbers,
          outofplane_angle \in CtorAngles, inplane_angle \in CtorAngles,
          tilt_angle \in CtorAngles, rocking_angle \in RockingInputs,
          pixel_x \in CtorNumbers, pixel_y \in CtorNumbers :
          LET out == Setup_init(beamline, beam_direction, energy, distance,
                                outofplane_angle, inplane_angle, tilt_angle,
                                rocking_angle, pixel_x, pixel_y)
          IN  /\ obj' = IF out.status = "ok" THEN out.o ELSE NoObject
              /\ res' = [op |-> "Setup", status |-> out.status,
                         beamline |-> beamline, beam_direction |-> beam_direction,
                         energy |-> energy, distance |-> distance,
                         pixel_x |-> pixel_x, pixel_y |-> pixel_y]
    /\ UNCHANGED <<vol, det, data, mask, ret>>

\* obj.attr = value
Assign ==
    /\ obj # NoObject
    /\ obj.cls = "Setup"
    /\ \E attr \in SetupAttributes :
          \E value \in InputsOf(attr) :
             LET out == SetAttr(obj, attr, value)
             IN  /\ obj' = out.o
                 /\ res' = [op |-> "assign", attr |-> attr, value |-> value,
                            status |-> out.status]
    /\ UNCHANGED <<vol, det, data, mask, ret>>

ReadInplaneCoeff ==
    /\ obj # NoObject
    /\ res' = [op |-> "inplane_coeff", status |-> inplane_coeff(obj).status,
               val |-> inplane_coeff(obj).val]
    /\ UNCHANGED <<obj, vol, det, data, mask, ret>>

ReadOutofplaneCoeff ==
    /\ obj # NoObject
    /\ res' = [op |-> "outofplane_coeff", status |-> outofplane_coeff(obj).status,
               val |-> outofplane_coeff(obj).val]
    /\ UNCHANGED <<obj, vol, det, data, mask, ret>>

Next ==
    \/ Construct
    \/ Assign
    \/ ReadInplaneCoeff
    \/ ReadOutofplaneCoeff

Spec == Init /\ [][Next]_vars

(***************************************************************************)
(* Detector.mask_detector.                                                 *)
(*                                                                         *)
(* A 2-D array is [shape, val]: its shape <<rows, columns>> and its values *)
(* at the pixels of Probes that lie inside the shape.  Every step of       *)
(* mask_detector acts pixel by pixel, so the values at the probe pixels    *)
(* are exactly those of the full array.  Intensities are in units of 1000  *)
(* counts.                                                                 *)
(***************************************************************************)
MaxImg == 2        \* bound: nb_img ranges over 1..MaxImg

Detectors == {"Eiger2M", "Eiger4M", "Maxipix", "Merlin", "Timepix"}

Probes == {<<256, 256>>, <<520, 10>>, <<100, 75>>, <<290, 290>>, <<0, 0>>}
Shapes == {<<2164, 1030>>, <<300, 300>>}

PixelsOf(shape) == {p \in Probes : p[1] < shape[1] /\ p[2] < shape[2]}
NoArray == [shape |-> <<>>, val |-> <<>>]
ConstArray(shape, x) == [shape |-> shape, val |-> [p \in PixelsOf(shape) |-> x]]
\* the array that holds x0 at pixel p0 and x elsewhere
SpotArray(shape, p0, x0, x) ==
    [shape |-> shape, val |-> [p \in PixelsOf(shape) |-> IF p = p0 THEN x0 ELSE x]]

\* index expressions of one axis: a slice lo:hi, the slice lo: , the slice -1:
\* and an integer index
Slice(lo, hi) == [kind |-> "slice", lo |-> lo, hi |-> hi]
From(lo) == [kind |-> "from", lo |-> lo, hi |-> 0]
All == From(0)
Last == [kind |-> "last", lo |-> 0, hi |-> 0]
Index(k) == [kind |-> "index", lo |-> k, hi |-> 0]

\* whether index i of an axis of length n is selected
Selects(sel, i, n) ==
    CASE sel.kind = "slice" -> sel.lo <= i /\ i < sel.hi
      [] sel.kind = "from" -> sel.lo <= i
      [] sel.kind = "last" -> n - 1 <= i
      [] sel.kind = "index" -> i = sel.lo

\* an integer index beyond the axis raises IndexError
OutOfBounds(sel, n) == sel.kind = "index" /\ sel.lo >= n

Covers(entry, p, shape) ==
    Selects(entry[1], p[1], shape[1]) /\ Selects(entry[2], p[2], shape[2])

EntryRaises(entry, shape) ==
    OutOfBounds(entry[1], shape[1]) \/ OutOfBounds(entry[2], shape[2])

\* the dead rows and columns of each detector, as <<row index, column index>>
\* expressions, in the order of the assignments
Eiger2M_data_table ==
    << <<All, Slice(255, 259)>>, <<All, Slice(513, 517)>>, <<All, Slice(771, 775)>>,
       <<Slice(0, 257), Slice(72, 80)>>, <<Slice(255, 259), All>>,
       <<Slice(511, 552), Slice(0, 0)>>, <<Slice(804, 809), All>>,
       <<Slice(1061, 1102), All>>, <<Slice(1355, 1359), All>>,
       <<Slice(1611, 1652), All>>, <<Slice(1905, 1909), All>>,
       <<Slice(1248, 1290), Index(478)>>, <<Slice(1214, 1298), Index(481)>>,
       <<Slice(1649, 1910), Slice(620, 628)>> >>

Eiger2M_mask_table ==
    << <<All, Slice(255, 259)>>, <<All, Slice(513, 517)>>, <<All, Slice(771, 775)>>,
       <<Slice(0, 257), Slice(72, 80)>>, <<Slice(255, 259), All>>,
       <<Slice(511, 552), All>>, <<Slice(804, 809), All>>,
       <<Slice(1061, 1102), All>>, <<Slice(1355, 1359), All>>,
       <<Slice(1611, 1652), All>>, <<Slice(1905, 1909), All>>,
       <<Slice(1248, 1290), Index(478)>>, <<Slice(1214, 1298), Index(481)>>,
       <<Slice(1649, 1910), Slice(620, 628)>> >>

Eiger4M_table ==
    << <<All, Slice(0, 1)>>, <<All, Last>>, <<Slice(0, 1), All>>, <<Last, All>>,
       <<All, Slice(1030, 1040)>>, <<Slice(514, 551), All>>,
       <<Slice(1065, 1102), All>>, <<Slice(1616, 1653), All>> >>

Maxipix_table == << <<All, Slice(255, 261)>>, <<Slice(255, 261), All>> >>

Merlin_table == << <<All, Slice(255, 260)>>, <<Slice(255, 260), All>> >>

data_table(name) ==
    CASE name = "Eiger2M" -> Eiger2M_data_table
      [] name = "Eiger4M" -> Eiger4M_table
      [] name = "Maxipix" -> Maxipix_table
      [] name = "Merlin" -> Merlin_table
      [] name = "Timepix" -> <<>>

mask_table(name) ==
    CASE name = "Eiger2M" -> Eiger2M_mask_table
      [] name = "Eiger4M" -> Eiger4M_table
      [] name = "Maxipix" -> Maxipix_table
      [] name = "Merlin" -> Merlin_table
      [] name = "Timepix" -> <<>>

\* the hot-pixel thresholds, in units of 1000 counts
HotThreshold == 1000
HotThresholdEiger4M == 4000000

\* whether the branch of the detector ends with the threshold step, and its level
has_threshold(name) == name \in {"Eiger2M", "Eiger4M", "Maxipix", "Merlin"}
threshold(name, nb_img) ==
    IF name = "Eiger4M" THEN HotThresholdEiger4M * nb_img ELSE HotThreshold * nb_img

\* the number of assignments of a table that complete: all of them, or those
\* before the first that raises IndexError
Completed(table, shape) ==
    IF \E j \in 1..Len(table) : EntryRaises(table[j], shape)
    THEN (CHOOSE j \in 1..Len(table) :
             /\ EntryRaises(table[j], shape)
             /\ \A k \in 1..(j - 1) : ~EntryRaises(table[k], shape)) - 1
    ELSE Len(table)

\* arr after the first n assignments arr[rows, columns] = x of the table
Assigned(arr, table, n, x) ==
    [arr EXCEPT !.val = [p \in DOMAIN arr.val |->
        IF \E j \in 1..n : Covers(table[j], p, arr.shape) THEN x ELSE arr.val[p]]]

\* np.multiply(flatfield, data) and data - background
Multiply(a, b) == [b EXCEPT !.val = [p \in DOMAIN b.val |-> a.val[p] * b.val[p]]]
Subtract(a, b) == [a EXCEPT !.val = [p \in DOMAIN a.val |-> a.val[p] - b.val[p]]]

\* arr[sel == 1] = x  and  arr[level < by] = x
AssignWhereOne(arr, sel, x) ==
    [arr EXCEPT !.val = [p \in DOMAIN arr.val |-> IF sel.val[p] = 1 THEN x ELSE arr.val[p]]]
AssignWhereAbove(arr, by, level, x) ==
    [arr EXCEPT !.val = [p \in DOMAIN arr.val |-> IF by.val[p] > level THEN x ELSE arr.val[p]]]

\* what a step leaves: how it ended and the arrays the local names data and
\* mask are bound to
Step(status, d, m) == [status |-> status, d |-> d, m |-> m]

\* faulty variant: the hotpixels array is applied before its shape is compared
hotpixels_step_checks_late(d, m, hotpixels) ==
    IF hotpixels = NoArray
    THEN Step("continue", d, m)
    ELSE IF hotpixels.shape # d.shape
    THEN Step("ValueError",
              [d EXCEPT !.val = [p \in DOMAIN d.val |->
                  IF p \in DOMAIN hotpixels.val /\ hotpixels.val[p] = 1 THEN 0 ELSE d.val[p]]],
              [m EXCEPT !.val = [p \in DOMAIN m.val |->
                  IF p \in DOMAIN hotpixels.val /\ hotpixels.val[p] = 1 THEN 1 ELSE m.val[p]]])
    ELSE Step("continue", AssignWhereOne(d, hotpixels, 0), AssignWhereOne(m, hotpixels, 1))

\* faulty variant: the hotpixels array takes the place of the mask
hotpixels_step_replaces_mask(d, m, hotpixels) ==
    IF hotpixels = NoArray
    THEN Step("continue", d, m)
    ELSE IF hotpixels.shape # d.shape
    THEN Step("ValueError", d, m)
    ELSE Step("continue", AssignWhereOne(d, hotpixels, 0), [m EXCEPT !.val = hotpixels.val])

\* lines 1775-1781: mask hotpixels
hotpixels_step(d, m, hotpixels) ==
    IF hotpixels = NoArray
    THEN Step("continue", d, m)
    ELSE IF hotpixels.shape # d.shape
    THEN Step("ValueError", d, m)
    ELSE Step("continue", AssignWhereOne(d, hotpixels, 0), AssignWhereOne(m, hotpixels, 1))

\* lines 1783-1869: the gaps of the detector, then its hot pixels
gaps_step(name, d, m, nb_img) ==
    LET nd == Completed(data_table(name), d.shape)
        d1 == Assigned(d, data_table(name), nd, 0)
        nm == Completed(mask_table(name), m.shape)
        m1 == Assigned(m, mask_table(name), nm, 1)
    IN  IF nd < Len(data_table(name))
        THEN Step("IndexError", d1, m)
        ELSE IF nm < Len(mask_table(name))
        THEN Step("IndexError", d1, m1)
        ELSE IF has_threshold(name)
        THEN Step("ok",
                  AssignWhereAbove(d1, d1, threshold(name, nb_img), 0),
                  AssignWhereAbove(m1, d1, threshold(name, nb_img), 1))
        ELSE Step("ok", d1, m1)

\* The outcome of a call: status, the returned pair (out_data, out_mask) and the
\* caller's arrays after the call (data, mask).  The local name mask is always
\* bound to the caller's array; own tells whether the local name data still is
\* (it is rebound by the flatfield and background corrections).
Outcome(step, own, data0) ==
    [status |-> step.status,
     out_data |-> IF step.status = "ok" THEN step.d ELSE NoArray,
     out_mask |-> IF step.status = "ok" THEN step.m ELSE NoArray,
     data |-> IF own THEN step.d ELSE data0,
     mask |-> step.m]

mask_detector(name, data0, mask0, nb_img, flatfield, background, hotpixels) ==
    IF Len(data0.shape) # 2 \/ Len(mask0.shape) # 2
    THEN Outcome(Step("ValueError", data0, mask0), TRUE, data0)
    ELSE IF data0.shape # mask0.shape
    THEN Outcome(Step("ValueError", data0, mask0), TRUE, data0)
    ELSE IF flatfield # NoArray /\ flatfield.shape # data0.shape
    THEN Outcome(Step("ValueError", data0, mask0), TRUE, data0)
    ELSE
    LET d1 == IF flatfield # NoArray THEN Multiply(flatfield, data0) ELSE data0
        own1 == flatfield = NoArray
    IN  IF background # NoArray /\ background.shape # d1.shape
        THEN Outcome(Step("ValueError", d1, mask0), own1, data0)
        ELSE
        LET d2 == IF background # NoArray THEN Subtract(d1, background) ELSE d1
            own2 == own1 /\ background = NoArray
            hot == hotpixels_step(d2, mask0, hotpixels)
        IN  IF hot.status # "continue"
            THEN Outcome(hot, own2, data0)
            ELSE Outcome(gaps_step(name, hot.d, hot.m, nb_img), own2, data0)

(***************************************************************************)
(* One call of mask_detector on arrays drawn from bounded sets.            *)
(***************************************************************************)
\* intensities: an empty pixel, a weak one, one above the threshold of one
\* image and one above every threshold
Intensities == {0, 3, 1500, 9000000}

DataArrays == {SpotArray(sh, p0, x0, 3) : sh \in Shapes, p0 \in Probes, x0 \in Intensities}
MaskArrays == {SpotArray(sh, p0, 1, 0) : sh \in Shapes, p0 \in Probes}
                 \cup {ConstArray(sh, 0) : sh \in Shapes}
FlatfieldArrays == {NoArray} \cup {ConstArray(sh, 2) : sh \in Shapes}
BackgroundArrays == {NoArray} \cup {ConstArray(sh, 1) : sh \in Shapes}
HotpixelArrays == {NoArray} \cup {SpotArray(sh, <<290, 290>>, 1, 0) : sh \in Shapes}

NoSetup ==
    /\ obj = NoObject
    /\ res = NoResult
    /\ vol = NoVolume

InitDet ==
    /\ NoSetup
    /\ det \in Detectors
    /\ data \in DataArrays
    /\ mask \in MaskArrays
    /\ ret = NoResult

\* data, mask = detector.mask_detector(data, mask, nb_img, flatfield, background, hotpixels)
MaskDetector ==
    /\ ret = NoResult
    /\ \E nb_img \in 1..MaxImg, flatfield \in FlatfieldArrays,
          background \in BackgroundArrays, hotpixels \in HotpixelArrays :
          LET out == mask_detector(det, data, mask, nb_img, flatfield, background, hotpixels)
          IN  /\ data' = out.data
              /\ mask' = out.mask
              /\ ret' = [op |-> "mask_detector", status |-> out.status,
                         out_data |-> out.out_data, out_mask |-> out.out_mask,
                         in_data |-> data, in_mask |-> mask, nb_img |-> nb_img,
                         flatfield |-> flatfield, background |-> background,
                         hotpixels |-> hotpixels]
    /\ UNCHANGED <<obj, res, vol, det>>

NextDet == MaskDetector

SpecDet == InitDet /\ [][NextDet]_vars

(***************************************************************************)
(* Geometry: update_coords, voxel_sizes, orthogonalize and detector_frame. *)
(* Setup and SetupPostprocessing carry the same code for these methods;    *)
(* the classes differ in their constructors and in the handling of the     *)
(* voxel_size argument.                                                    *)
(***************************************************************************)
Abs(x) == IF x < 0 THEN -x ELSE x

RECURSIVE Gcd(_, _)
Gcd(a, b) == IF b = 0 THEN a ELSE Gcd(b, a % b)

\* the number a / b (b > 0), in lowest terms
Quot(a, b) ==
    LET g == Gcd(Abs(a), b)
    IN  [tag |-> "num", v |-> a \div g, d |-> b \div g, s |-> "", vec |-> <<>>]

Times(x, y) == Quot(x.v * y.v, x.d * y.d)
\* x / y for y > 0
Over(x, y) == Quot(x.v * y.d, x.d * y.v)
\* abs(x)
AbsOf(x) == Quot(Abs(x.v), x.d)

\* the angles of the model: 0 and the two acute angles of the 3-4-5 triangle,
\* with 5 * cos and 5 * sin of each.  Angle 0 is the only one with a zero
\* sine, as in floating point (sin(0.0) is 0.0, cos(0.0) is 1.0).
Angles == 0..2
AngleTable ==
    [k \in Angles |-> CASE k = 0 -> <<5, 0>> [] k = 1 -> <<4, 3>> [] k = 2 -> <<3, 4>>]
Cos5(angle) == AngleTable[angle.v][1]
Sin5(angle) == AngleTable[angle.v][2]

\* SetupPostprocessing(beamline, energy, ...): plain attributes, nothing is
\* validated; the wavelength is computed from the energy argument
SetupPostprocessing_init(beamline, energy, outofplane_angle, inplane_angle, tilt_angle, rocking_angle, distance, grazing_angle, pixel_x, pixel_y) ==
    IF ~IsNumber(energy)
    THEN Raise("TypeError", NoObject)
    ELSE IF energy.v = 0
    THEN Raise("ZeroDivisionError", NoObject)
    ELSE Ok([cls |-> "SetupPostprocessing",
             attrs |-> {"beamline", "energy", "wavelength", "outofplane_angle",
                        "inplane_angle", "tilt_angle", "rocking_angle",
                        "grazing_angle", "distance", "pixel_x", "pixel_y",
                        "detector_hor", "detector_ver"},
             beamline |-> beamline, beam_direction |-> [vec |-> <<>>, norm |-> 0],
             energy |-> energy, distance |-> distance,
             outofplane_angle |-> outofplane_angle, inplane_angle |-> inplane_angle,
             tilt_angle |-> tilt_angle, rocking_angle |-> rocking_angle,
             pixel_x |-> pixel_x, pixel_y |-> pixel_y,
             grazing_angle |-> grazing_angle])

\* wavelength in units of 12.398e-7: None when the energy of a Setup is unset
wavelength(o) == IF IsNone(o.energy) THEN NoneV ELSE Over(Num(1), o.energy)

\* 3x3 matrices as rows; mymatrix[:, j] = column j
ZeroColumn == <<0, 0, 0>>
Scaled(k, vec) == <<k * vec[1], k * vec[2], k * vec[3]>>
FromColumns(c0, c1, c2) ==
    << <<c0[1], c1[1], c2[1]>>, <<c0[2], c1[2], c2[2]>>, <<c0[3], c1[3], c2[3]>> >>
Det(m) ==
    m[1][1] * (m[2][2] * m[3][3] - m[2][3] * m[3][2])
    - m[1][2] * (m[2][1] * m[3][3] - m[2][3] * m[3][1])
    + m[1][3] * (m[2][1] * m[3][2] - m[2][2] * m[3][1])

\* np.linalg.inv raises LinAlgError on a singular matrix
Singular(matrix) == ~matrix.inv_t /\ Det(matrix.m) = 0
\* 2 * np.pi * np.linalg.inv(matrix).transpose(), for a matrix that is not singular
TwoPiInvT(matrix) == [matrix EXCEPT !.inv_t = ~matrix.inv_t]

\* the three arrays np.array([...]) that the branch of beamline / rocking_angle /
\* grazing angle puts in the columns of mymatrix, each times 125 (ci, si, co, so,
\* cg, sg are 5 * cos and 5 * sin of inplane, outofplane, mygrazing_angle);
\* three zero columns when no branch is taken
directions(beamline, rocking_angle, grazing_is_zero, ci, si, co, so, cg, sg) ==
    LET outofplane == rocking_angle = Str("outofplane")
        inplane0 == rocking_angle = Str("inplane") /\ grazing_is_zero
        inplane1 == rocking_angle = Str("inplane") /\ ~grazing_is_zero
        none == <<ZeroColumn, ZeroColumn, ZeroColumn>>
    IN  CASE beamline = Str("ID01") ->
               LET x == <<25 * ci, 0, 25 * si>>
                   y == <<-5 * si * so, -25 * co, 5 * ci * so>>
               IN  IF outofplane
                   THEN <<x, y, <<0, 5 * (25 - ci * co), 25 * so>> >>
                   ELSE IF inplane0
                   THEN <<x, y, <<-5 * (25 - ci * co), 0, 5 * si * co>> >>
                   ELSE IF inplane1
                   THEN <<x, y, <<5 * sg * so + cg * (ci * co - 25), sg * si * co, cg * si * co>> >>
                   ELSE none
          [] beamline = Str("P10") ->
               LET x == <<-25 * ci, 0, 25 * si>>
                   y == <<5 * si * so, -25 * co, 5 * ci * so>>
               IN  IF outofplane
                   THEN <<x, y, <<0, 5 * (25 - ci * co), 25 * so>> >>
                   ELSE IF inplane0
                   THEN <<x, y, <<5 * (ci * co - 25), 0, -5 * si * co>> >>
                   ELSE IF inplane1
                   THEN <<x, y, <<5 * sg * so + cg * (ci * co - 25), -sg * si * co, -cg * si * co>> >>
                   ELSE none
          [] beamline = Str("NANOMAX") ->
               LET x == <<25 * ci, 0, 25 * si>>
                   y == <<5 * si * so, 25 * co, -5 * ci * so>>
               IN  IF outofplane
                   THEN <<x, y, <<0, 5 * (25 - ci * co), 25 * so>> >>
                   ELSE IF inplane0
                   THEN <<x, y, <<-5 * (25 - ci * co), 0, 5 * si * co>> >>
                   ELSE IF inplane1
                   THEN <<x, y, <<5 * sg * so + cg * (ci * co - 25), sg * si * co, cg * si * co>> >>
                   ELSE none
          [] beamline = Str("34ID") ->
               LET x == <<25 * ci, 0, -25 * si>>
                   y == <<5 * si * so, -25 * co, 5 * ci * so>>
               IN  IF outofplane
                   THEN <<x, y, <<0, -5 * (25 - ci * co), -25 * so>> >>
                   ELSE IF inplane1
                   THEN <<x, y, <<5 * sg * so + cg * (25 - ci * co), -sg * si * co, cg * si * co>> >>
                   ELSE IF inplane0
                   THEN <<x, y, <<5 * (25 - ci * co), 0, 5 * si * co>> >>
                   ELSE none
          [] beamline \in {Str("SIXS_2018"), Str("SIXS_2019")} ->
               IF inplane1
               THEN << <<25 * ci, -5 * sg * si, -5 * cg * si>>,
                       <<5 * si * so, sg * ci * so - 5 * cg * co, cg * ci * so + 5 * sg * co>>,
                       <<25 * cg - 5 * ci * co, sg * si * co, cg * si * co>> >>
               ELSE IF inplane0
               THEN << <<25 * ci, 0, -25 * si>>,
                       <<5 * si * so, -25 * co, 5 * ci * so>>,
                       <<5 * (25 - ci * co), 0, 5 * si * co>> >>
               ELSE none
          [] beamline = Str("CRISTAL") ->
               IF outofplane
               THEN << <<25 * ci, 0, -25 * si>>,
                       <<5 * si * so, -25 * co, 5 * ci * so>>,
                       <<0, 5 * (25 - ci * co), 25 * so>> >>
               ELSE none
          [] OTHER -> none

\* mymatrix with the columns kx * x, ky * y, kz * z for the numbers kx, ky,
\* kz: integer entries over the common denominator of the three numbers
Columns(dirs, kx, ky, kz) ==
    IF dirs = <<ZeroColumn, ZeroColumn, ZeroColumn>>
    THEN [m |-> FromColumns(ZeroColumn, ZeroColumn, ZeroColumn), den |-> 1,
          inv_t |-> FALSE]
    ELSE [m |-> FromColumns(Scaled(kx.v * ky.d * kz.d, dirs[1]),
                            Scaled(ky.v * kx.d * kz.d, dirs[2]),
                            Scaled(kz.v * kx.d * ky.d, dirs[3])),
          den |-> kx.d * ky.d * kz.d, inv_t |-> FALSE]

\* wavelength * distance
lambdaz(o) == Times(wavelength(o), o.distance)

\* mymatrix of update_coords once a branch has filled it: column 0 is
\* 2 pi nbx / lambdaz * pixel_x * x, column 1 is 2 pi nby / lambdaz * pixel_y * y,
\* column 2 is 2 pi nbz / lambdaz * tilt * distance * z
mymatrix(o, array_shape, tilt_angle, pixel_x, pixel_y) ==
    Columns(directions(o.beamline, o.rocking_angle, o.grazing_angle.v = 0,
                       Cos5(o.inplane_angle), Sin5(o.inplane_angle),
                       Cos5(o.outofplane_angle), Sin5(o.outofplane_angle),
                       Cos5(o.grazing_angle), Sin5(o.grazing_angle)),
            Over(Times(Num(array_shape[3]), pixel_x), lambdaz(o)),
            Over(Times(Num(array_shape[2]), pixel_y), lambdaz(o)),
            Over(Times(Times(Num(array_shape[1]), tilt_angle), o.distance), lambdaz(o)))

\* faulty variant: the inversion never raises (as with np.linalg.pinv)
transfer_matrix_pinv(filled) == [status |-> "ok", matrix |-> TwoPiInvT(filled)]

\* transfer_matrix = 2 * np.pi * np.linalg.inv(mymatrix).transpose()
transfer_matrix(filled) ==
    IF Singular(filled)
    THEN [status |-> "LinAlgError", matrix |-> NoMatrix]
    ELSE [status |-> "ok", matrix |-> TwoPiInvT(filled)]

\* [status, matrix]: the transfer matrix, or the exception of the first
\* statement that fails
update_coords(o, array_shape, tilt_angle, pixel_x, pixel_y) ==
    IF \/ IsNone(wavelength(o)) \/ IsNone(o.distance)
       \/ IsNone(pixel_x) \/ IsNone(pixel_y)
       \/ IsNone(o.outofplane_angle) \/ IsNone(o.inplane_angle)
    THEN [status |-> "TypeError", matrix |-> NoMatrix]
    ELSE IF "grazing_angle" \notin o.attrs
    THEN [status |-> "AttributeError", matrix |-> NoMatrix]
    ELSE IF IsNone(o.grazing_angle) \/ IsNone(tilt_angle)
    THEN [status |-> "TypeError", matrix |-> NoMatrix]
    ELSE IF Len(array_shape) # 3
    THEN [status |-> "ValueError", matrix |-> NoMatrix]
    ELSE transfer_matrix(mymatrix(o, array_shape, tilt_angle, pixel_x, pixel_y))

\* a voxel size 2 pi / q_range is represented by its square, in units of 125^2:
\* q_range is (2 pi / 125) * norm(row of m) / den
VoxelOf(rec_matrix, row) == Quot(rec_matrix.den * rec_matrix.den, NormSq(rec_matrix.m[row]))

\* rec_matrix = 2 * np.pi * np.linalg.inv(transfer_matrix).transpose() and the
\* three sizes <<voxel_z, voxel_y, voxel_x>> from its rows 2, 1, 0
voxels_from(transfer) ==
    IF transfer.status # "ok"
    THEN [status |-> transfer.status, voxel |-> <<>>]
    ELSE [status |-> "ok",
          voxel |-> <<VoxelOf(TwoPiInvT(transfer.matrix), 3),
                      VoxelOf(TwoPiInvT(transfer.matrix), 2),
                      VoxelOf(TwoPiInvT(transfer.matrix), 1)>>]

\* [status, voxel]: voxel = <<voxel_z, voxel_y, voxel_x>>
voxel_sizes(o, array_shape, tilt_angle, pixel_x, pixel_y) ==
    IF o.cls = "Setup" /\ Len(array_shape) # 3
    THEN [status |-> "AssertionError", voxel |-> <<>>]
    ELSE voxels_from(update_coords(o, array_shape, tilt_angle, pixel_x, pixel_y))

\* faulty variant: the ratio of the shapes is applied upside down
rescaled_inverted(o, obj_shape, shape0) ==
    IF \E k \in 1..3 : obj_shape[k] # shape0[k]
    THEN [changed |-> TRUE,
          tilt |-> Over(Times(o.tilt_angle, Num(obj_shape[1])), Num(shape0[1])),
          pixel_y |-> Over(Times(o.pixel_y, Num(obj_shape[2])), Num(shape0[2])),
          pixel_x |-> Over(Times(o.pixel_x, Num(obj_shape[3])), Num(shape0[3]))]
    ELSE [changed |-> FALSE, tilt |-> o.tilt_angle, pixel_y |-> o.pixel_y,
          pixel_x |-> o.pixel_x]

\* tilt, pixel_y, pixel_x of orthogonalize: recalculated when the shape of obj
\* is not the initial shape
rescaled(o, obj_shape, shape0) ==
    IF \E k \in 1..3 : obj_shape[k] # shape0[k]
    THEN [changed |-> TRUE,
          tilt |-> Over(Times(o.tilt_angle, Num(shape0[1])), Num(obj_shape[1])),
          pixel_y |-> Over(Times(o.pixel_y, Num(shape0[2])), Num(obj_shape[2])),
          pixel_x |-> Over(Times(o.pixel_x, Num(shape0[3])), Num(obj_shape[3]))]
    ELSE [changed |-> FALSE, tilt |-> o.tilt_angle, pixel_y |-> o.pixel_y,
          pixel_x |-> o.pixel_x]

\* faulty variant: the recalculated tilt and pixel sizes are stored in the object
orthogonalize_self_rescaled(o, obj_shape, shape0) ==
    IF Len(shape0) = 3 /\ ~IsNone(o.tilt_angle) /\ ~IsNone(o.pixel_x) /\ ~IsNone(o.pixel_y)
    THEN [o EXCEPT !.tilt_angle = rescaled(o, obj_shape, shape0).tilt,
                   !.pixel_y = rescaled(o, obj_shape, shape0).pixel_y,
                   !.pixel_x = rescaled(o, obj_shape, shape0).pixel_x]
    ELSE o

\* the object when orthogonalize returns or raises: tilt, pixel_y and pixel_x
\* of the recalculation are local names, no attribute is assigned
orthogonalize_self(o, obj_shape, shape0) == o

\* the voxel_size argument left at its default (None in Setup, np.nan in
\* SetupPostprocessing).  A voxel size is [mean, of]: a single number when
\* mean is TRUE (the mean of the three sizes in of), the tuple of otherwise
VoxelOmitted == [mean |-> FALSE, of |-> <<>>]

\* faulty variant: a voxel_size given by the caller is replaced by the computed one
voxel_size_used_computed(o, voxel_size, computed) ==
    [status |-> "ok",
     voxel_size |-> [mean |-> o.cls = "SetupPostprocessing", of |-> computed]]

\* the voxel size that orthogonalize uses and returns, [status, voxel_size].
\* Setup: "if not voxel_size" takes the computed sizes for None, () and 0, and
\* the assertion wants a tuple or list of three positive numbers.
\* SetupPostprocessing: np.isnan(voxel_size) selects the mean of the computed
\* sizes; the truth value of np.isnan of a tuple is a ValueError
voxel_size_used(o, voxel_size, computed) ==
    IF o.cls = "Setup"
    THEN IF voxel_size = VoxelOmitted \/ (voxel_size.mean /\ voxel_size.of[1].v = 0)
         THEN [status |-> "ok", voxel_size |-> [mean |-> FALSE, of |-> computed]]
         ELSE IF \/ voxel_size.mean
                 \/ Len(voxel_size.of) # 3
                 \/ \E k \in 1..Len(voxel_size.of) : voxel_size.of[k].v <= 0
         THEN [status |-> "AssertionError", voxel_size |-> <<>>]
         ELSE [status |-> "ok", voxel_size |-> voxel_size]
    ELSE IF voxel_size = VoxelOmitted
         THEN [status |-> "ok", voxel_size |-> [mean |-> TRUE, of |-> computed]]
         ELSE IF voxel_size.mean
         THEN [status |-> "ok", voxel_size |-> voxel_size]
         ELSE [status |-> "ValueError", voxel_size |-> <<>>]

\* the end of orthogonalize: the voxel size, then update_coords
orthogonalize_end(chosen, ortho_matrix) ==
    IF chosen.status # "ok"
    THEN [status |-> chosen.status, voxel_size |-> <<>>, ortho_matrix |-> NoMatrix]
    ELSE IF ortho_matrix.status # "ok"
    THEN [status |-> ortho_matrix.status, voxel_size |-> <<>>, ortho_matrix |-> NoMatrix]
    ELSE [status |-> "ok", voxel_size |-> chosen.voxel_size,
          ortho_matrix |-> ortho_matrix.matrix]

\* the outcome of orthogonalize from the results of its calls, in their order:
\* voxel_sizes on the initial shape, voxel_sizes on the shape of obj (the
\* sanity check, only when the shape changed), the choice of the voxel size,
\* update_coords
orthogonalize_outcome(o, voxel_size, first, sanity, ortho_matrix) ==
    IF first.status # "ok"
    THEN [status |-> first.status, voxel_size |-> <<>>, ortho_matrix |-> NoMatrix]
    ELSE IF sanity.status # "ok"
    THEN [status |-> sanity.status, voxel_size |-> <<>>, ortho_matrix |-> NoMatrix]
    ELSE orthogonalize_end(voxel_size_used(o, voxel_size, sanity.voxel), ortho_matrix)

\* orthogonalize from the recalculated tilt and pixel sizes on
orthogonalize_with(o, obj_shape, voxel_size, first, scale) ==
    orthogonalize_outcome(o, voxel_size, first,
        IF scale.changed
        THEN voxel_sizes(o, obj_shape, AbsOf(scale.tilt), scale.pixel_x, scale.pixel_y)
        ELSE first,
        update_coords(o, obj_shape, scale.tilt, scale.pixel_x, scale.pixel_y))

\* orthogonalize once initial_shape is settled
orthogonalize_from(o, obj_shape, shape0, voxel_size) ==
    IF o.cls = "Setup" /\ Len(shape0) # 3
    THEN [status |-> "AssertionError", voxel_size |-> <<>>, ortho_matrix |-> NoMatrix]
    ELSE IF IsNone(o.tilt_angle)
    THEN [status |-> "TypeError", voxel_size |-> <<>>, ortho_matrix |-> NoMatrix]
    ELSE orthogonalize_with(o, obj_shape, voxel_size,
             voxel_sizes(o, shape0, AbsOf(o.tilt_angle), o.pixel_x, o.pixel_y),
             rescaled(o, obj_shape, shape0))

\* orthogonalize(obj, initial_shape, voxel_size, **kwargs); initial_shape <<>>
\* is the default (None, resp. ()).  [status, voxel_size, ortho_matrix]: the
\* voxel size returned and the transfer matrix whose inverse gives the
\* sampling positions
orthogonalize(o, obj_shape, initial_shape, voxel_size, kwargs) ==
    IF kwargs \ {"title"} # {}
    THEN [status |-> "Exception", voxel_size |-> <<>>, ortho_matrix |-> NoMatrix]
    ELSE orthogonalize_from(o, obj_shape,
             IF initial_shape = <<>> THEN obj_shape ELSE initial_shape, voxel_size)

\* the outcome of detector_frame from the result of its update_coords call;
\* RegularGridInterpolator wants strictly ascending axes, which a voxel size
\* that is not positive does not give
detector_frame_outcome(voxel_size, ortho_matrix) ==
    IF ortho_matrix.status # "ok"
    THEN [status |-> ortho_matrix.status, ortho_matrix |-> NoMatrix]
    ELSE IF \E k \in 1..Len(voxel_size.of) : voxel_size.of[k].v <= 0
    THEN [status |-> "ValueError", ortho_matrix |-> NoMatrix]
    ELSE [status |-> "ok", ortho_matrix |-> ortho_matrix.matrix]

\* detector_frame(obj, voxel_size, **kwargs): [status, ortho_matrix], the
\* transfer matrix that gives the sampling positions.  Setup turns a number
\* into three and asserts three positive numbers otherwise, before it looks at
\* kwargs; SetupPostprocessing takes voxelsize as it is
detector_frame(o, obj_shape, voxel_size, kwargs) ==
    IF /\ o.cls = "Setup"
       /\ ~voxel_size.mean
       /\ \/ Len(voxel_size.of) # 3
          \/ \E k \in 1..Len(voxel_size.of) : voxel_size.of[k].v <= 0
    THEN [status |-> "AssertionError", ortho_matrix |-> NoMatrix]
    ELSE IF kwargs \ {"title"} # {}
    THEN [status |-> "Exception", ortho_matrix |-> NoMatrix]
    ELSE detector_frame_outcome(voxel_size,
             update_coords(o, obj_shape, o.tilt_angle, o.pixel_x, o.pixel_y))

(***************************************************************************)
(* Use of the geometry methods on a constructed object.                    *)
(***************************************************************************)
GeomRocking == {NoneV, Str("outofplane"), Str("inplane")}
GeomTilts == {Num(1), Num(-1)}
GeomPixels == {Num(2)}
GrazingAngles == {Num(0), Num(1)}

\* Setup objects as the constructor leaves them
GeomSetups ==
    {Setup_init(Str(b), Tup(<<1, 0, 0>>), Num(1), Num(1), Num(outofplane), Num(inplane), tilt, rocking, pixel, Num(1)).o :
        b \in Beamlines, outofplane \in Angles, inplane \in Angles,
        tilt \in GeomTilts, rocking \in GeomRocking, pixel \in GeomPixels}

\* SetupPostprocessing objects as the constructor leaves them
GeomSetupsPostprocessing ==
    {SetupPostprocessing_init(Str(b), Num(1), Num(outofplane), Num(inplane), tilt, rocking, Num(1), grazing, pixel, Num(1)).o :
        b \in Beamlines, outofplane \in Angles, inplane \in Angles,
        tilt \in GeomTilts, rocking \in GeomRocking, grazing \in GrazingAngles,
        pixel \in GeomPixels}

ObjShapes == {<<2, 2, 2>>, <<2, 2, 4>>}
InitialShapes == {<<>>, <<4, 2, 4>>}
TiltArgs == {Num(1), Num(0)}
PixelArgs == {Num(2)}
\* voxel_size: left out, a number, three positive numbers
VoxelSizeArgs ==
    {VoxelOmitted, [mean |-> TRUE, of |-> <<Num(4), Num(4), Num(4)>>],
     [mean |-> FALSE, of |-> <<Num(4), Num(9), Num(4)>>]}
KwargsArgs == {{"title"}, {"colour"}}

\* an array in the detector frame, as the phasing program gives it
DetectorVolume(shape) ==
    [shape |-> shape, frame |-> "detector", voxel_size |-> <<>>,
     orthogonalized_with |-> NoMatrix, framed_with |-> NoMatrix]

InitGeom ==
    /\ obj \in GeomSetups \cup GeomSetupsPostprocessing
    /\ res = NoResult
    /\ vol \in {DetectorVolume(shape) : shape \in ObjShapes}
    /\ IdleDetector

\* the record of a call in res
Called(op, out, args) == [op |-> op, status |-> out.status, out |-> out, args |-> args]

\* obj.update_coords(array_shape, tilt_angle, pixel_x, pixel_y)
UpdateCoords ==
    /\ \E array_shape \in ObjShapes, tilt_angle \in TiltArgs,
          pixel_x \in PixelArgs, pixel_y \in PixelArgs :
          res' = Called("update_coords",
                        update_coords(obj, array_shape, tilt_angle, pixel_x, pixel_y),
                        [array_shape |-> array_shape, tilt_angle |-> tilt_angle,
                         pixel_x |-> pixel_x, pixel_y |-> pixel_y])
    /\ UNCHANGED <<obj, vol, det, data, mask, ret>>

\* obj.voxel_sizes(array_shape, tilt_angle, pixel_x, pixel_y)
VoxelSizes ==
    /\ \E array_shape \in ObjShapes, tilt_angle \in TiltArgs,
          pixel_x \in PixelArgs, pixel_y \in PixelArgs :
          res' = Called("voxel_sizes",
                        voxel_sizes(obj, array_shape, tilt_angle, pixel_x, pixel_y),
                        [array_shape |-> array_shape, tilt_angle |-> tilt_angle,
                         pixel_x |-> pixel_x, pixel_y |-> pixel_y])
    /\ UNCHANGED <<obj, vol, det, data, mask, ret>>

\* the array after orthogonalize returned out: interpolated in the laboratory
\* frame, or as it was when the call raised
Orthogonalized(v, out) ==
    IF out.status = "ok"
    THEN [shape |-> v.shape, frame |-> "laboratory", voxel_size |-> out.voxel_size,
          orthogonalized_with |-> out.ortho_matrix, framed_with |-> NoMatrix]
    ELSE v

\* the array after detector_frame returned out
Framed(v, out) ==
    IF out.status = "ok"
    THEN [v EXCEPT !.frame = "detector", !.framed_with = out.ortho_matrix]
    ELSE v

\* vol, voxel_size = obj.orthogonalize(vol, initial_shape, voxel_size, **kwargs)
Orthogonalize ==
    /\ vol.frame = "detector"
    /\ \E initial_shape \in InitialShapes, voxel_size \in VoxelSizeArgs,
          kwargs \in KwargsArgs :
          /\ res' = Called("orthogonalize",
                           orthogonalize(obj, vol.shape, initial_shape, voxel_size, kwargs),
                           [initial_shape |-> initial_shape, voxel_size |-> voxel_size,
                            kwargs |-> kwargs])
          /\ vol' = Orthogonalized(vol, res'.out)
    /\ UNCHANGED <<obj, det, data, mask, ret>>

\* vol = obj.detector_frame(vol, voxel_size, **kwargs), with the voxel size
\* that orthogonalize returned
DetectorFrame ==
    /\ vol.frame = "laboratory"
    /\ \E kwargs \in KwargsArgs :
          /\ res' = Called("detector_frame",
                           detector_frame(obj, vol.shape, vol.voxel_size, kwargs),
                           [voxel_size |-> vol.voxel_size, kwargs |-> kwargs])
          /\ vol' = Framed(vol, res'.out)
    /\ UNCHANGED <<obj, det, data, mask, ret>>

NextGeom ==
    \/ UpdateCoords
    \/ VoxelSizes
    \/ Orthogonalize
    \/ DetectorFrame

SpecGeom == InitGeom /\ [][NextGeom]_vars

(***************************************************************************)
(* The coordinate grids of orthogonalize and detector_frame.               *)
(***************************************************************************)
\* the longest axis of the arrays whose grids are built
MaxLen == 4

\* np.arange(lo, hi, 1): lo, lo + 1, ..., hi - 1; empty when hi <= lo
arange(lo, hi) == [k \in 1..(IF hi > lo THEN hi - lo ELSE 0) |-> lo + k - 1]

\* faulty variant: the lower end is -(n // 2), rounding towards zero
centered_truncating(n) == arange(-(n \div 2), n \div 2)

\* np.arange(-n // 2, n // 2, 1): the unary minus applies before the floor
\* division
centered(n) == arange((-n) \div 2, n \div 2)

\* grid * voxel_size[k]
ScaledGrid(grid, by) == [k \in 1..Len(grid) |-> grid[k] * by]

\* orthogonalize: the meshgrid of the laboratory frame (target) and the axes
\* given to RegularGridInterpolator (source)
orthogonalize_grids(shape, voxel_size) ==
    [target |-> [k \in 1..3 |-> ScaledGrid(centered(shape[k]), voxel_size[k])],
     source |-> [k \in 1..3 |-> centered(shape[k])]]

\* detector_frame: the meshgrid of the detector frame (target) and the axes
\* given to RegularGridInterpolator (source)
detector_frame_grids(shape, voxel_size) ==
    [target |-> [k \in 1..3 |-> centered(shape[k])],
     source |-> [k \in 1..3 |-> ScaledGrid(centered(shape[k]), voxel_size[k])]]

GridShapes == {<<nbz, nby, nbx>> : nbz \in 1..MaxLen, nby \in 1..MaxLen, nbx \in 1..MaxLen}
GridVoxelSizes == {<<1, 1, 1>>, <<1, 2, 3>>}

InitGrid ==
    /\ obj = NoObject
    /\ res = NoResult
    /\ vol \in {DetectorVolume(shape) : shape \in GridShapes}
    /\ IdleDetector

\* the grids that orthogonalize builds for the array
OrthogonalizeGrids ==
    /\ \E voxel_size \in GridVoxelSizes :
          res' = [op |-> "orthogonalize", status |-> "ok",
                  out |-> orthogonalize_grids(vol.shape, voxel_size),
                  args |-> [shape |-> vol.shape, voxel_size |-> voxel_size]]
    /\ UNCHANGED <<obj, vol, det, data, mask, ret>>

\* the grids that detector_frame builds for the array
DetectorFrameGrids ==
    /\ \E voxel_size \in GridVoxelSizes :
          res' = [op |-> "detector_frame", status |-> "ok",
                  out |-> detector_frame_grids(vol.shape, voxel_size),
                  args |-> [shape |-> vol.shape, voxel_size |-> voxel_size]]
    /\ UNCHANGED <<obj, vol, det, data, mask, ret>>

NextGrid ==
    \/ OrthogonalizeGrids
    \/ DetectorFrameGrids

SpecGrid == InitGrid /\ [][NextGrid]_vars

(***************************************************************************)
(* Interpolation of orthogonalize and detector_frame.  Coordinates are in  *)
(* units of half a pixel, so that points between two grid points exist.    *)
(***************************************************************************)
\* searchsorted(grid, x) - 1 clipped to 0 .. grid.size - 2, as a 1-based index
find_index(grid, x) ==
    LET below == Cardinality({k \in 1..Len(grid) : grid[k] < x})
    IN  IF below < 1 THEN 1 ELSE IF below > Len(grid) - 1 THEN Len(grid) - 1 ELSE below

out_of_bounds(grids, xi) ==
    \E k \in 1..3 : xi[k] < grids[k][1] \/ xi[k] > grids[k][Len(grids[k])]

\* method='linear': the eight corners of the cell of xi weighted by the
\* distances of xi to the opposite faces
evaluate_linear(grids, values, xi) ==
    LET i == [k \in 1..3 |-> find_index(grids[k], xi[k])]
        q == [k \in 1..3 |-> grids[k][i[k] + 1] - grids[k][i[k]]]
        p == [k \in 1..3 |-> xi[k] - grids[k][i[k]]]
        w(k, e) == IF e = 1 THEN p[k] ELSE q[k] - p[k]
        term(ez, ey, ex) ==
            w(1, ez) * w(2, ey) * w(3, ex) * values[i[1] + ez][i[2] + ey][i[3] + ex]
    IN  Quot(term(0, 0, 0) + term(0, 0, 1) + term(0, 1, 0) + term(0, 1, 1)
             + term(1, 0, 0) + term(1, 0, 1) + term(1, 1, 0) + term(1, 1, 1),
             q[1] * q[2] * q[3])

\* RegularGridInterpolator(grids, values, method='linear', bounds_error,
\* fill_value)(xi): [status, value]
RegularGridInterpolator(grids, values, bounds_error, fill_value, xi) ==
    IF bounds_error /\ out_of_bounds(grids, xi)
    THEN [status |-> "ValueError", value |-> NoneV]
    ELSE IF out_of_bounds(grids, xi) /\ ~IsNone(fill_value)
    THEN [status |-> "ok", value |-> fill_value]
    ELSE [status |-> "ok", value |-> evaluate_linear(grids, values, xi)]

\* .astype(obj.dtype): an integer dtype drops the fraction
astype(out, dtype) ==
    IF out.status = "ok" /\ dtype = "int"
    THEN [out EXCEPT !.value = Num((Abs(out.value.v) \div out.value.d)
                                   * (IF out.value.v < 0 THEN -1 ELSE 1))]
    ELSE out

\* the grid of an axis of n pixels of the given size, in half pixels
HalfPixels(n, size) == ScaledGrid(centered(n), 2 * size)
SourceGrids(o, voxel_size) ==
    <<HalfPixels(Len(o.values), voxel_size[1]),
      HalfPixels(Len(o.values[1]), voxel_size[2]),
      HalfPixels(Len(o.values[1][1]), voxel_size[3])>>

\* faulty variant: fill_value=None, points outside the grid are extrapolated
orthogonalize_rgi_extrapolating(o, xi) ==
    astype(RegularGridInterpolator(SourceGrids(o, <<1, 1, 1>>), o.values, FALSE, NoneV, xi),
           o.dtype)

\* ortho_obj at the voxel whose source coordinate (new_z, new_y, new_x) is xi
orthogonalize_rgi(o, xi) ==
    astype(RegularGridInterpolator(SourceGrids(o, <<1, 1, 1>>), o.values, FALSE, Num(0), xi),
           o.dtype)

\* detector_obj at the voxel whose source coordinate (new_z, new_y, new_x) is xi
detector_frame_rgi(o, voxel_size, xi) ==
    astype(RegularGridInterpolator(SourceGrids(o, voxel_size), o.values, FALSE, Num(0), xi),
           o.dtype)

InterpShapes == {<<2, 2, 2>>, <<2, 3, 2>>}
\* obj: arrays without a zero, with their dtype
InterpArrays ==
    {[dtype |-> dtype,
      values |-> [z \in 1..s[1] |-> [y \in 1..s[2] |-> [x \in 1..s[3] |->
                     1 + a * z + b * y * x]]]] :
        s \in InterpShapes, a \in 0..1, b \in 0..1, dtype \in {"float", "int"}}
InterpVoxelSizes == {<<1, 1, 1>>, <<1, 2, 1>>}
\* source coordinates, from below the grids to above them
InterpCoords == -9..1

InitInterp ==
    /\ NoSetup
    /\ det = "none"
    /\ data \in InterpArrays
    /\ mask = <<>>
    /\ ret = NoResult

\* one voxel of ortho_obj
OrthogonalizeVoxel ==
    /\ ret = NoResult
    /\ \E new_z \in InterpCoords, new_y \in InterpCoords, new_x \in InterpCoords :
          ret' = Called("orthogonalize", orthogonalize_rgi(data, <<new_z, new_y, new_x>>),
                        [voxel_size |-> <<1, 1, 1>>, xi |-> <<new_z, new_y, new_x>>])
    /\ UNCHANGED <<obj, res, vol, det, data, mask>>

\* one voxel of detector_obj
DetectorFrameVoxel ==
    /\ ret = NoResult
    /\ \E voxel_size \in InterpVoxelSizes,
          new_z \in InterpCoords, new_y \in InterpCoords, new_x \in InterpCoords :
          ret' = Called("detector_frame",
                        detector_frame_rgi(data, voxel_size, <<new_z, new_y, new_x>>),
                        [voxel_size |-> voxel_size, xi |-> <<new_z, new_y, new_x>>])
    /\ UNCHANGED <<obj, res, vol, det, data, mask>>

NextInterp ==
    \/ OrthogonalizeVoxel
    \/ DetectorFrameVoxel

SpecInterp == InitInterp /\ [][NextInterp]_vars

(***************************************************************************)
(* The geometry methods called with arguments of any kind: shapes that are *)
(* not three positive integers, parameters that are still None.            *)
(***************************************************************************)
\* x / y for y # 0
Ratio(x, y) == Quot(x.v * y.d * (IF y.v < 0 THEN -1 ELSE 1), x.d * Abs(y.v))

\* faulty variant: an unset distance or pixel size counts as 1
voxel_sizes_detector_defaults(o, array_shape, tilt_angle, pixel_x, pixel_y) ==
    LET failed(exc) == [status |-> exc, voxel |-> <<>>]
        or1(x) == IF IsNone(x) THEN Num(1) ELSE x
    IN  IF Len(array_shape) < 3
        THEN failed("IndexError")
        ELSE IF IsNone(tilt_angle) \/ IsNone(wavelength(o))
        THEN failed("TypeError")
        ELSE IF \/ array_shape[1] * tilt_angle.v = 0
                \/ array_shape[2] * or1(pixel_y).v = 0
                \/ array_shape[3] * or1(pixel_x).v = 0
        THEN failed("ZeroDivisionError")
        ELSE [status |-> "ok",
              voxel |-> <<Ratio(wavelength(o), Times(Num(array_shape[1]), AbsOf(tilt_angle))),
                          Ratio(Times(wavelength(o), or1(o.distance)),
                                Times(Num(array_shape[2]), or1(pixel_y))),
                          Ratio(Times(wavelength(o), or1(o.distance)),
                                Times(Num(array_shape[3]), or1(pixel_x)))>>]

\* [status, voxel]: voxel_z, voxel_y, voxel_x of the detector frame, in the
\* order in which the three lines read their operands
voxel_sizes_detector(o, array_shape, tilt_angle, pixel_x, pixel_y) ==
    LET failed(exc) == [status |-> exc, voxel |-> <<>>]
    IN  IF Len(array_shape) < 1
        THEN failed("IndexError")
        ELSE IF IsNone(tilt_angle) \/ IsNone(wavelength(o))
        THEN failed("TypeError")
        ELSE IF array_shape[1] * tilt_angle.v = 0
        THEN failed("ZeroDivisionError")
        ELSE IF IsNone(o.distance)
        THEN failed("TypeError")
        ELSE IF Len(array_shape) < 2
        THEN failed("IndexError")
        ELSE IF IsNone(pixel_y)
        THEN failed("TypeError")
        ELSE IF array_shape[2] * pixel_y.v = 0
        THEN failed("ZeroDivisionError")
        ELSE IF Len(array_shape) < 3
        THEN failed("IndexError")
        ELSE IF IsNone(pixel_x)
        THEN failed("TypeError")
        ELSE IF array_shape[3] * pixel_x.v = 0
        THEN failed("ZeroDivisionError")
        ELSE [status |-> "ok",
              voxel |-> <<Ratio(wavelength(o), Times(Num(array_shape[1]), AbsOf(tilt_angle))),
                          Ratio(lambdaz(o), Times(Num(array_shape[2]), pixel_y)),
                          Ratio(lambdaz(o), Times(Num(array_shape[3]), pixel_x))>>]

\* (new_z, new_y, new_x) = np.linalg.inv(ortho_matrix) applied to the vector
\* (z, y, x); the inverse of 2 pi inv(A).T is A.T / (2 pi)
vector_from(ortho_matrix, vector) ==
    IF ortho_matrix.status # "ok"
    THEN [status |-> ortho_matrix.status, vector |-> <<>>]
    ELSE [status |-> "ok",
          vector |-> [k \in 1..3 |->
              Quot(ortho_matrix.matrix.m[1][4 - k] * vector[3]
                   + ortho_matrix.matrix.m[2][4 - k] * vector[2]
                   + ortho_matrix.matrix.m[3][4 - k] * vector[1],
                   125 * ortho_matrix.matrix.den)]]

\* orthogonalize_vector(vector, array_shape, tilt_angle, pixel_x, pixel_y); the
\* assertion on array_shape is in Setup only
orthogonalize_vector(o, vector, array_shape, tilt_angle, pixel_x, pixel_y) ==
    IF o.cls = "Setup" /\ Len(array_shape) # 3
    THEN [status |-> "AssertionError", vector |-> <<>>]
    ELSE vector_from(update_coords(o, array_shape, tilt_angle, pixel_x, pixel_y), vector)

\* Setup objects with any of the numeric parameters left unset
ArgSetups ==
    {Setup_init(Str(b), Tup(<<1, 0, 0>>), energy, distance, outofplane, inplane, tilt, Str("outofplane"), pixel_x, pixel_y).o :
        b \in {"ID01", "CRISTAL", "SIXS_2018"}, energy \in {Num(1), NoneV}, distance \in {Num(1), NoneV},
        outofplane \in {Num(1), NoneV}, inplane \in {Num(2), NoneV},
        tilt \in {Num(-1), NoneV}, pixel_x \in {Num(2), NoneV}, pixel_y \in {Num(1), NoneV}}

\* SetupPostprocessing objects with every number set; the constructor takes
\* any beamline name and any rocking_angle
ArgSetupsPostprocessing ==
    {SetupPostprocessing_init(Str(b), Num(1), Num(1), Num(2), Num(-1), rocking, Num(1), Num(0), Num(2), Num(1)).o :
        b \in {"ID01", "CRISTAL", "SIXS_2019", "BM02"},
        rocking \in {Str("outofplane"), Str("inplane"), NoneV}}

\* array_shape: three positive integers, two integers, shapes with a 0 or a
\* negative length
ShapeArgs == {<<2, 2, 4>>, <<2, 2>>, <<2, 0, 2>>, <<-2, 2, 2>>}
NumberArgs == {Num(1), NoneV}

InitArgs ==
    /\ obj \in ArgSetups \cup ArgSetupsPostprocessing
    /\ res = NoResult
    /\ vol = DetectorVolume(<<2, 2, 4>>)
    /\ IdleDetector

\* one call of update_coords, voxel_sizes, voxel_sizes_detector or
\* orthogonalize_vector
CallWithShape ==
    /\ obj.cls # "none"
    /\ res = NoResult
    /\ \E array_shape \in ShapeArgs, tilt_angle \in NumberArgs,
          pixel_x \in NumberArgs, pixel_y \in NumberArgs :
          LET args == [array_shape |-> array_shape, tilt_angle |-> tilt_angle,
                       pixel_x |-> pixel_x, pixel_y |-> pixel_y]
          IN  \/ res' = Called("update_coords",
                               update_coords(obj, array_shape, tilt_angle, pixel_x, pixel_y),
                               args)
              \/ res' = Called("voxel_sizes",
                               voxel_sizes(obj, array_shape, tilt_angle, pixel_x, pixel_y),
                               args)
              \/ res' = Called("voxel_sizes_detector",
                               voxel_sizes_detector(obj, array_shape, tilt_angle, pixel_x,
                                                    pixel_y),
                               args)
              \/ res' = Called("orthogonalize_vector",
                               orthogonalize_vector(obj, <<1, 0, 0>>, array_shape, tilt_angle,
                                                    pixel_x, pixel_y),
                               args)
    /\ UNCHANGED <<obj, vol, det, data, mask, ret>>

\* one call of orthogonalize on the object constructed, from which
\* detector_frame may follow
CallOrthogonalize ==
    /\ obj.cls # "none"
    /\ res.op \in {"none", "Setup"}
    /\ \E initial_shape \in InitialShapes, kwargs \in KwargsArgs \cup {{}} :
          /\ res' = Called("orthogonalize",
                           orthogonalize(obj, vol.shape, initial_shape, VoxelOmitted, kwargs),
                           [initial_shape |-> initial_shape, voxel_size |-> VoxelOmitted,
                            kwargs |-> kwargs])
          /\ vol' = Orthogonalized(vol, res'.out)
          /\ obj' = orthogonalize_self(obj, vol.shape,
                        IF initial_shape = <<>> THEN vol.shape ELSE initial_shape)
    /\ UNCHANGED <<det, data, mask, ret>>

\* one call of detector_frame with a voxel size: a number or three numbers,
\* positive or not
CallDetectorFrame ==
    /\ obj.cls # "none"
    /\ res.op \in {"none", "Setup", "orthogonalize"}
    /\ \E voxel_size \in (VoxelSizeArgs \ {VoxelOmitted})
                              \cup {[mean |-> FALSE, of |-> <<Num(4), Num(0), Num(4)>>],
                                    [mean |-> TRUE, of |-> <<Num(-4), Num(-4), Num(-4)>>]},
          kwargs \in KwargsArgs \cup {{}} :
          /\ res' = Called("detector_frame",
                           detector_frame(obj, vol.shape, voxel_size, kwargs),
                           [voxel_size |-> voxel_size, kwargs |-> kwargs])
          /\ vol' = Framed(vol, res'.out)
    /\ UNCHANGED <<obj, det, data, mask, ret>>

NextArgs ==
    \/ CallWithShape
    \/ CallOrthogonalize
    \/ CallDetectorFrame

SpecArgs == InitArgs /\ [][NextArgs]_vars

(***************************************************************************)
(* Construction of a Detector and of a Setup with keyword arguments.       *)
(* kwargs is [keys, ...]: the keywords given and, for those that carry a   *)
(* value the constructor uses, the value.                                  *)
(***************************************************************************)
\* the number of pixels and the pixel size (in micrometres) of each detector
catalog(name) ==
    CASE name = "Maxipix" -> [nb_pixel_x |-> 516, nb_pixel_y |-> 516, pixelsize |-> 55]
      [] name = "Eiger2M" -> [nb_pixel_x |-> 1030, nb_pixel_y |-> 2164, pixelsize |-> 75]
      [] name = "Eiger4M" -> [nb_pixel_x |-> 2070, nb_pixel_y |-> 2167, pixelsize |-> 75]
      [] name = "Timepix" -> [nb_pixel_x |-> 256, nb_pixel_y |-> 256, pixelsize |-> 55]
      [] name = "Merlin" -> [nb_pixel_x |-> 515, nb_pixel_y |-> 515, pixelsize |-> 55]

\* kwargs.get(key, None) or default, for a keyword whose falsy value is empty
GetOr(kwargs, key, empty, default) ==
    IF key \in kwargs.keys /\ kwargs[key] # empty THEN kwargs[key] ELSE default

\* faulty variant: the binning factors of the two detector axes are exchanged
binned_pixelsize_exchanged(pixelsize, previous_binning, binning) ==
    [pixelsize_y |-> pixelsize * previous_binning[3] * binning[3],
     pixelsize_x |-> pixelsize * previous_binning[2] * binning[2]]

\* the pixel sizes corrected for past and future binning
binned_pixelsize(pixelsize, previous_binning, binning) ==
    [pixelsize_y |-> pixelsize * previous_binning[2] * binning[2],
     pixelsize_x |-> pixelsize * previous_binning[3] * binning[3]]

\* faulty variant: a region of any length is stored as given
region_unchecked(roi, nb_pixel_y, nb_pixel_x) ==
    IF Len(roi) = 0
    THEN [status |-> "ok", roi |-> <<0, nb_pixel_y, 0, nb_pixel_x>>]
    ELSE [status |-> "ok", roi |-> roi]

\* roi and sum_roi: the full detector for an empty value, four elements as
\* given, ValueError otherwise
region(roi, nb_pixel_y, nb_pixel_x) ==
    IF Len(roi) = 0
    THEN [status |-> "ok", roi |-> <<0, nb_pixel_y, 0, nb_pixel_x>>]
    ELSE IF Len(roi) = 4
    THEN [status |-> "ok", roi |-> roi]
    ELSE [status |-> "ValueError", roi |-> <<>>]

\* the end of Detector.__init__: pixel sizes, then roi, then sum_roi
Detector_regions(o, binning, roi, sum_roi) ==
    IF Len(binning) < 3
    THEN Raise("IndexError", NoObject)
    ELSE IF roi.status # "ok"
    THEN Raise(roi.status, NoObject)
    ELSE IF sum_roi.status # "ok"
    THEN Raise(sum_roi.status, NoObject)
    ELSE Ok([cls |-> "Detector", name |-> o.name, binning |-> binning,
             previous_binning |-> o.previous_binning,
             nb_pixel_x |-> o.nb_pixel_x, nb_pixel_y |-> o.nb_pixel_y,
             pixelsize_y |-> binned_pixelsize(o.pixelsize, o.previous_binning,
                                              binning).pixelsize_y,
             pixelsize_x |-> binned_pixelsize(o.pixelsize, o.previous_binning,
                                              binning).pixelsize_x,
             roi |-> roi.roi, sum_roi |-> sum_roi.roi])

\* the branch of the detector name: the pixel numbers given or those of the
\* detector, divided by the previous binning
Detector_named(name, previous_binning, nb_pixel_x, nb_pixel_y) ==
    [name |-> name, previous_binning |-> previous_binning,
     nb_pixel_x |-> (IF nb_pixel_x = 0 THEN catalog(name).nb_pixel_x ELSE nb_pixel_x)
                        \div previous_binning[3],
     nb_pixel_y |-> (IF nb_pixel_y = 0 THEN catalog(name).nb_pixel_y ELSE nb_pixel_y)
                        \div previous_binning[2],
     pixelsize |-> catalog(name).pixelsize]

\* the detector once the keywords are read
Detector_with(name, roi, sum_roi, binning, named) ==
    Detector_regions(named, binning,
                     region(roi, named.nb_pixel_y, named.nb_pixel_x),
                     region(sum_roi, named.nb_pixel_y, named.nb_pixel_x))

\* faulty variant: keywords that are not known are ignored
Detector_init_any_keyword(name, roi, sum_roi, binning, kwargs) ==
    IF name \notin {"Maxipix", "Eiger2M", "Eiger4M", "Timepix", "Merlin"}
    THEN Raise("ValueError", NoObject)
    ELSE Detector_with(name, roi, sum_roi, binning,
             Detector_named(name, GetOr(kwargs, "previous_binning", <<>>, <<1, 1, 1>>),
                            GetOr(kwargs, "nb_pixel_x", 0, 0),
                            GetOr(kwargs, "nb_pixel_y", 0, 0)))

\* Detector(name, roi=roi, sum_roi=sum_roi, binning=binning, **kwargs)
Detector_init(name, roi, sum_roi, binning, kwargs) ==
    IF kwargs.keys \ {"is_series", "nb_pixel_x", "nb_pixel_y", "previous_binning"} # {}
    THEN Raise("Exception", NoObject)
    ELSE IF name \notin {"Maxipix", "Eiger2M", "Eiger4M", "Timepix", "Merlin"}
    THEN Raise("ValueError", NoObject)
    ELSE IF Len(GetOr(kwargs, "previous_binning", <<>>, <<1, 1, 1>>)) < 3
    THEN Raise("IndexError", NoObject)
    ELSE IF \E k \in 2..3 : GetOr(kwargs, "previous_binning", <<>>, <<1, 1, 1>>)[k] = 0
    THEN Raise("ZeroDivisionError", NoObject)
    ELSE Detector_with(name, roi, sum_roi, binning,
             Detector_named(name, GetOr(kwargs, "previous_binning", <<>>, <<1, 1, 1>>),
                            GetOr(kwargs, "nb_pixel_x", 0, 0),
                            GetOr(kwargs, "nb_pixel_y", 0, 0)))

\* Setup(beamline, ..., **kwargs) with keywords of valid values: the keywords
\* are tested before anything is assigned
Setup_init_kwargs(kwargs, beamline, energy, distance, tilt_angle, rocking_angle) ==
    IF kwargs \ {"direct_beam", "filtered_data", "is_orthogonal", "custom_scan",
                 "custom_images", "custom_monitor", "custom_motors", "sample_inplane",
                 "sample_outofplane", "sample_offsets", "offset_inplane"} # {}
    THEN Raise("Exception", NoObject)
    ELSE Setup_init(beamline, Tup(<<1, 0, 0>>), energy, distance, Num(1), Num(2),
                    tilt_angle, rocking_angle, Num(2), Num(1))

DetectorNames == Detectors \cup {"Pilatus"}
RoiArgs == {<<>>, <<0, 100, 10, 90>>, <<0, 100, 10>>}
BinningArgs == {<<1, 1, 1>>, <<3, 2, 4>>}
DetectorKwargs ==
    {[keys |-> keys, nb_pixel_x |-> 200, nb_pixel_y |-> 0,
      previous_binning |-> previous_binning] :
        keys \in {{}, {"previous_binning"}, {"nb_pixel_x", "nb_pixel_y", "is_series"},
                  {"previous_binning", "nb_pixel_x", "nb_pixel_y"}, {"previous_binning", "colour"}},
        previous_binning \in {<<5, 2, 3>>, <<>>}}

InitCtor ==
    /\ obj = NoObject
    /\ res = NoResult
    /\ vol = DetectorVolume(<<2, 2, 4>>)
    /\ IdleDetector

\* detector = Detector(name, roi=roi, sum_roi=sum_roi, binning=binning, **kwargs)
ConstructDetector ==
    /\ ret = NoResult
    /\ \E name \in DetectorNames, roi \in RoiArgs, sum_roi \in RoiArgs,
          binning \in BinningArgs, kwargs \in DetectorKwargs :
          ret' = Called("Detector", Detector_init(name, roi, sum_roi, binning, kwargs),
                        [name |-> name, roi |-> roi, sum_roi |-> sum_roi,
                         binning |-> binning, kwargs |-> kwargs])
    /\ UNCHANGED <<obj, res, vol, det, data, mask>>

\* setup = Setup(beamline, energy=..., **kwargs)
ConstructSetup ==
    /\ obj = NoObject
    /\ res = NoResult
    /\ \E kwargs \in {{}, {"is_orthogonal", "custom_scan"}, {"is_orthogonal", "colour"}},
          beamline \in {"ID01", "BM02"}, rocking_angle \in {"outofplane", "inplane"} :
          /\ res' = Called("Setup",
                           Setup_init_kwargs(kwargs, Str(beamline), Num(1), Num(1), Num(-1),
                                             Str(rocking_angle)),
                           [kwargs |-> kwargs, beamline |-> beamline])
          /\ obj' = IF res'.status = "ok" THEN res'.out.o ELSE NoObject
    /\ UNCHANGED <<vol, det, data, mask, ret>>

NextCtor ==
    \/ ConstructDetector
    \/ ConstructSetup
    \/ CallOrthogonalize
    \/ CallDetectorFrame

SpecCtor == InitCtor /\ [][NextCtor]_vars

(***************************************************************************)
(* The matrix inversions of update_coords and voxel_sizes, carried out     *)
(* entry by entry.  A matrix is here [pi, m, den]: the integer rows m over *)
(* the positive integer den, times 2 pi when pi is 1; the entries and den  *)
(* have no common factor.                                                  *)
(***************************************************************************)
Gcd3(vec) == Gcd(Gcd(Abs(vec[1]), Abs(vec[2])), Abs(vec[3]))

Lowest(pi, m, den) ==
    LET g == Gcd(Gcd(Gcd3(m[1]), Gcd3(m[2])), Gcd(Gcd3(m[3]), den))
    IN  [pi |-> pi,
         m |-> [i \in 1..3 |-> [j \in 1..3 |-> m[i][j] \div g]],
         den |-> den \div g]

\* mymatrix as an array of numbers: (2 pi / 125) * m / den
AsArray(matrix) == Lowest(1, matrix.m, 125 * matrix.den)

Cyc(i) == (i % 3) + 1

\* the matrix of cofactors: inverse(m) transposed is Cofactors(m) / Det(m)
Cofactors(m) ==
    [i \in 1..3 |-> [j \in 1..3 |->
        m[Cyc(i)][Cyc(j)] * m[Cyc(Cyc(i))][Cyc(Cyc(j))]
        - m[Cyc(i)][Cyc(Cyc(j))] * m[Cyc(Cyc(i))][Cyc(j)]]]

Transpose(m) == [i \in 1..3 |-> [j \in 1..3 |-> m[j][i]]]

\* 2 * np.pi * np.linalg.inv(a).transpose(), for a matrix that is not singular
two_pi_inv_transpose(a) ==
    LET d == Det(a.m)
        k == IF d < 0 THEN -a.den ELSE a.den
    IN  Lowest(1 - a.pi,
               [i \in 1..3 |-> Scaled(k, Cofactors(a.m)[i])],
               Abs(d))

\* 2 * np.pi / np.linalg.norm(rec_matrix[row, :]), by its square
range_voxel(rec_matrix, row) ==
    Quot(rec_matrix.den * rec_matrix.den, NormSq(rec_matrix.m[row]))

\* faulty variant: the sizes are returned in the order x, y, z
voxel_sizes_arrays_xyz(filled) ==
    IF Singular(filled)
    THEN [status |-> "LinAlgError"]
    ELSE LET transfer == two_pi_inv_transpose(AsArray(filled))
             rec == two_pi_inv_transpose(transfer)
         IN  [status |-> "ok", mymatrix |-> AsArray(filled),
              transfer_matrix |-> transfer, rec_matrix |-> rec,
              voxel |-> <<range_voxel(rec, 1), range_voxel(rec, 2), range_voxel(rec, 3)>>]

\* lines 843 and 860-872 on a filled mymatrix: transfer_matrix, rec_matrix and
\* the returned sizes <<voxel_z, voxel_y, voxel_x>>
voxel_sizes_arrays(filled) ==
    IF Singular(filled)
    THEN [status |-> "LinAlgError"]
    ELSE LET transfer == two_pi_inv_transpose(AsArray(filled))
             rec == two_pi_inv_transpose(transfer)
         IN  [status |-> "ok", mymatrix |-> AsArray(filled),
              transfer_matrix |-> transfer, rec_matrix |-> rec,
              voxel |-> <<range_voxel(rec, 3), range_voxel(rec, 2), range_voxel(rec, 1)>>]

InvTilts == {Num(1), Num(-1), Num(0)}
InvShapes == {<<1, 1, 1>>, <<2, 1, 1>>}

\* objects on which update_coords reaches the inversion: grazing angle 0 and
\* unit lengths, which keep the entries of the three matrices small
InvSetups ==
    {SetupPostprocessing_init(Str(b), Num(1), Num(outofplane), Num(inplane), Num(1), rocking, Num(1), Num(0), Num(1), Num(1)).o :
        b \in Beamlines, outofplane \in Angles, inplane \in Angles,
        rocking \in {Str("outofplane"), Str("inplane")}}

InitInv ==
    /\ obj \in InvSetups
    /\ res = NoResult
    /\ vol = NoVolume
    /\ IdleDetector

\* obj.voxel_sizes(array_shape, tilt_angle, pixel_x, pixel_y), the matrices of
\* the call kept entry by entry
VoxelSizesArrays ==
    /\ \E array_shape \in InvShapes, tilt_angle \in InvTilts :
          res' = Called("voxel_sizes",
                        voxel_sizes_arrays(mymatrix(obj, array_shape, tilt_angle, Num(1), Num(1))),
                        [array_shape |-> array_shape, tilt_angle |-> tilt_angle,
                         pixel_x |-> Num(1), pixel_y |-> Num(1)])
    /\ UNCHANGED <<obj, vol, det, data, mask, ret>>

NextInv == VoxelSizesArrays

SpecInv == InitInv /\ [][NextInv]_vars

(***************************************************************************)
(* Setup.exit_wavevector and the sign conventions.                         *)
(***************************************************************************)
\* kout of a beamline whose in-plane rotation has the sense xsign: 2 pi /
\* wavelength times (z, y, x), each component times 25
kout(o, xsign) ==
    IF IsNone(wavelength(o)) \/ IsNone(o.inplane_angle) \/ IsNone(o.outofplane_angle)
    THEN [status |-> "TypeError", kout |-> <<>>]
    ELSE [status |-> "ok",
          kout |-> <<Over(Num(Cos5(o.inplane_angle) * Cos5(o.outofplane_angle)), wavelength(o)),
                     Over(Num(5 * Sin5(o.outofplane_angle)), wavelength(o)),
                     Over(Num(xsign * Sin5(o.inplane_angle) * Cos5(o.outofplane_angle)),
                          wavelength(o))>>]

\* faulty variant: the rotation of NANOMAX is taken as anti-clockwise
exit_wavevector_nanomax_anticlockwise(o) ==
    IF o.beamline \in {Str("SIXS_2018"), Str("SIXS_2019"), Str("34ID"), Str("P10"),
                       Str("CRISTAL"), Str("NANOMAX")}
    THEN kout(o, 1)
    ELSE IF o.beamline = Str("ID01")
    THEN kout(o, -1)
    ELSE [status |-> "ValueError", kout |-> <<>>]

\* [status, kout]: kout = <<z, y, x>>, or the exception
exit_wavevector(o) ==
    IF o.beamline = Str("SIXS_2018") \/ o.beamline = Str("SIXS_2019")
    THEN kout(o, 1)
    ELSE IF o.beamline = Str("ID01")
    THEN kout(o, -1)
    ELSE IF o.beamline = Str("34ID")
    THEN kout(o, 1)
    ELSE IF o.beamline = Str("NANOMAX")
    THEN kout(o, -1)
    ELSE IF o.beamline = Str("P10")
    THEN kout(o, 1)
    ELSE IF o.beamline = Str("CRISTAL")
    THEN kout(o, 1)
    ELSE [status |-> "ValueError", kout |-> <<>>]

\* Setup objects with detector angles, with and without an energy
SignSetups ==
    {Setup_init(Str(b), Tup(<<1, 0, 0>>), energy, Num(1), Num(outofplane), Num(inplane), Num(1), Str("inplane"), Num(1), Num(1)).o :
        b \in Beamlines, energy \in {Num(1), Num(2), NoneV},
        outofplane \in Angles, inplane \in Angles}

InitSign ==
    /\ obj \in SignSetups
    /\ res = NoResult
    /\ vol = NoVolume
    /\ IdleDetector

\* obj.exit_wavevector
ReadExitWavevector ==
    /\ res' = [op |-> "exit_wavevector", status |-> exit_wavevector(obj).status,
               kout |-> exit_wavevector(obj).kout]
    /\ UNCHANGED <<obj, vol, det, data, mask, ret>>

NextSign ==
    \/ ReadExitWavevector
    \/ ReadInplaneCoeff
    \/ ReadOutofplaneCoeff

SpecSign == InitSign /\ [][NextSign]_vars

(***************************************************************************)
(* Claims.                                                                 *)
(***************************************************************************)
PositiveAttributes == {"energy", "distance", "pixel_x", "pixel_y"}
NonPositive(x) == IsNumber(x) /\ LessEqual(x, 0)

\* C3: assigning a value <= 0 to energy, distance, pixel_x or pixel_y, or the
\* zero vector to beam_direction, raises at the assignment: a constructor given
\* such a value raises and no object results, a later assignment ends in
\* ValueError and the attribute does not hold the rejected value.
C3_NonPositiveRejected ==
    /\ (res.op = "Setup" /\ (\/ NonPositive(res.energy) \/ NonPositive(res.distance)
                              \/ NonPositive(res.pixel_x) \/ NonPositive(res.pixel_y)
                              \/ res.beam_direction = Tup(<<0, 0, 0>>)))
           => (res.status \in {"ValueError", "TypeError"} /\ obj = NoObject)
    /\ (res.op = "assign" /\ res.attr \in PositiveAttributes /\ NonPositive(res.value))
           => (res.status = "ValueError" /\ obj[res.attr] # res.value)
    /\ (res.op = "assign" /\ res.attr = "beam_direction" /\ res.value = Tup(<<0, 0, 0>>))
           => (res.status = "ValueError" /\ obj.beam_direction.norm # 0)

C3_Witness ==
    /\ res.op = "assign"
    /\ res.attr = "pixel_y"
    /\ res.value = Num(0)
    /\ res.status = "ValueError"
    /\ obj.pixel_y = Num(1)

\* C4: the beamline of a Setup is always one of the seven supported names; a
\* construction or an assignment with another value raises ValueError and the
\* value is never stored.
C4_BeamlineSupported ==
    /\ (obj # NoObject /\ obj.cls = "Setup") => obj.beamline \in {Str(b) : b \in Beamlines}
    /\ (res.op = "Setup" /\ res.beamline \notin {Str(b) : b \in Beamlines})
           => (res.status = "ValueError" /\ obj = NoObject)
    /\ (res.op = "assign" /\ res.attr = "beamline"
           /\ res.value \notin {Str(b) : b \in Beamlines})
           => (res.status = "ValueError" /\ obj.beamline # res.value)

C4_Witness ==
    /\ res.op = "assign"
    /\ res.attr = "beamline"
    /\ res.value = Str("BM02")
    /\ res.status = "ValueError"
    /\ obj.beamline = Str("P10")

\* C5: inplane_coeff and outofplane_coeff are +1 or -1 and a function of the
\* beamline alone, whatever the other attributes hold: inplane_coeff is -1 for
\* ID01 (whose detector_hor is y+) and +1 for SIXS_2018, and outofplane_coeff
\* is the same number for the seven beamlines.
C5_InplaneByBeamline ==
    [b \in Beamlines |->
        IF b \in {"ID01", "NANOMAX", "34ID", "P10"} THEN -1 ELSE 1]

C5_CoeffByBeamline ==
    /\ res.op = "inplane_coeff"
           => /\ res.status = "ok"
              /\ res.val \in {1, -1}
              /\ res.val = C5_InplaneByBeamline[obj.beamline.s]
              /\ obj.beamline = Str("ID01") => (detector_hor(obj) = "y+" /\ res.val = -1)
              /\ obj.beamline = Str("SIXS_2018") => res.val = 1
    /\ res.op = "outofplane_coeff"
           => /\ res.status = "ok"
              /\ res.val = 1

C5_Witness ==
    /\ res.op = "inplane_coeff"
    /\ obj.beamline = Str("ID01")
    /\ obj.energy = NoneV
    /\ obj.pixel_x = Num(1)
    /\ res.val = -1

\* the optional arrays of the last call have the shape of its data
SidesMatch ==
    /\ ret.flatfield # NoArray => ret.flatfield.shape = ret.in_data.shape
    /\ ret.background # NoArray => ret.background.shape = ret.in_data.shape
    /\ ret.hotpixels # NoArray => ret.hotpixels.shape = ret.in_data.shape

\* C6: for an Eiger2M, after mask_detector on data and mask of equal shape that
\* contain row 256 and column 256, every pixel of row 256 and of column 256 has
\* mask 1 and data 0 in the result, whatever the values, nb_img, flatfield,
\* background and hotpixels are.
C6_Eiger2MCross ==
    (/\ ret.op = "mask_detector"
     /\ det = "Eiger2M"
     /\ ret.in_data.shape = ret.in_mask.shape
     /\ ret.in_data.shape[1] > 256
     /\ ret.in_data.shape[2] > 256
     /\ SidesMatch)
    => /\ ret.status = "ok"
       /\ \A p \in DOMAIN ret.out_mask.val :
             (p[1] = 256 \/ p[2] = 256)
                => (ret.out_mask.val[p] = 1 /\ ret.out_data.val[p] = 0)

\* C7: for each detector, every pixel that the dead row/column table sets to 1
\* in the returned mask has 0 in the returned data.
C7_TableCoversBoth ==
    (ret.op = "mask_detector" /\ ret.status = "ok")
    => \A p \in DOMAIN ret.out_mask.val :
          (\E j \in 1..Len(mask_table(det)) :
              Covers(mask_table(det)[j], p, ret.out_mask.shape))
             => ret.out_data.val[p] = 0

\* the data of the last call after the flatfield and background corrections
C8_Corrected(p) ==
    (IF ret.flatfield # NoArray THEN ret.flatfield.val[p] ELSE 1) * ret.in_data.val[p]
       - (IF ret.background # NoArray THEN ret.background.val[p] ELSE 0)

\* C8: for every detector of the catalog the threshold step closes the call: a
\* pixel whose corrected data exceeds threshold * nb_img ends with mask 1 and
\* data 0, and no returned pixel has data above threshold * nb_img.
C8_ThresholdApplied ==
    (ret.op = "mask_detector" /\ ret.status = "ok")
    => \A p \in DOMAIN ret.out_data.val :
          /\ ret.out_data.val[p] <= threshold(det, ret.nb_img)
          /\ C8_Corrected(p) > threshold(det, ret.nb_img)
                => (ret.out_mask.val[p] = 1 /\ ret.out_data.val[p] = 0)

\* C9: a call whose data and mask differ in shape, or whose flatfield,
\* background or hotpixels array differs in shape from data, raises, returns
\* nothing and leaves the caller's data and mask as they were.
C9_ShapeMismatchRaises ==
    (/\ ret.op = "mask_detector"
     /\ (ret.in_data.shape # ret.in_mask.shape \/ ~SidesMatch))
    => /\ ret.status = "ValueError"
       /\ ret.out_data = NoArray
       /\ ret.out_mask = NoArray
       /\ data = ret.in_data
       /\ mask = ret.in_mask

C9_Witness ==
    /\ ret.op = "mask_detector"
    /\ ret.status = "ValueError"
    /\ ret.in_data.shape = ret.in_mask.shape
    /\ ret.flatfield = NoArray
    /\ ret.background = NoArray
    /\ ret.hotpixels # NoArray
    /\ ret.hotpixels.shape # ret.in_data.shape
    /\ mask.val[<<290, 290>>] = 0

\* C1: on a Setup built by its constructor with beamline ID01, rocking_angle
\* "inplane" and every parameter set, voxel_sizes called with a 3-element shape
\* completes without raising and returns three strictly positive sizes.
C1_VoxelSizesPositive ==
    (/\ res.op = "voxel_sizes"
     /\ obj.cls = "Setup"
     /\ obj.beamline = Str("ID01")
     /\ obj.rocking_angle = Str("inplane")
     /\ Len(res.args.array_shape) = 3)
    => /\ res.status = "ok"
       /\ \A k \in 1..3 : res.out.voxel[k].v > 0

\* the combinations of beamline and rocking angle for which update_coords has
\* no formula, at any grazing angle
Unsupported(o) ==
    \/ o.beamline \in {Str("SIXS_2018"), Str("SIXS_2019")} /\ o.rocking_angle = Str("outofplane")
    \/ o.beamline = Str("CRISTAL") /\ o.rocking_angle = Str("inplane")

\* C2: update_coords on a beamline with a rocking mode it has no formula for
\* fails with the dedicated unsupported-rocking-mode error, raised before any
\* matrix inversion.
C2_UnsupportedModeRejected ==
    (res.op = "update_coords" /\ Unsupported(obj))
    => res.status = "UnsupportedRockingModeError"

SameMatrix(a, b) ==
    /\ a.inv_t = b.inv_t
    /\ \A i \in 1..3, j \in 1..3 : a.m[i][j] * b.den = b.m[i][j] * a.den

\* C10: orthogonalize followed by detector_frame with the voxel size that
\* orthogonalize returned is a round trip: the sampling positions of the two
\* steps compose to the identity, that is detector_frame samples with the
\* transfer matrix that orthogonalize inverted, whatever initial_shape
\* orthogonalize was given.
C10_RoundTrip ==
    (res.op = "detector_frame" /\ res.status = "ok")
    => SameMatrix(vol.framed_with, vol.orthogonalized_with)

\* the combinations of beamline and rocking angle for which update_coords has
\* a formula
HasFormula(o) ==
    /\ o.rocking_angle \in {Str("outofplane"), Str("inplane")}
    /\ ~Unsupported(o)

\* C11: on every branch of update_coords that defines a formula, with a
\* non-zero tilt and the detector angles of the reference scenario
\* (outofplane_angle 0, inplane_angle not 0), the construction matrix has a
\* non-zero determinant and update_coords returns a transfer matrix.
C11_DefinedBranchNonSingular ==
    (/\ res.op = "update_coords"
     /\ HasFormula(obj)
     /\ res.args.tilt_angle.v # 0
     /\ obj.inplane_angle.v # 0
     /\ obj.outofplane_angle.v = 0)
    => /\ res.status = "ok"
       /\ Det(res.out.matrix.m) # 0

\* the grid without the voxel-size factor: the source axes of orthogonalize,
\* the target axes of detector_frame
UnitGrid(r, k) == IF r.op = "orthogonalize" THEN r.out.source[k] ELSE r.out.target[k]
VoxelGrid(r, k) == IF r.op = "orthogonalize" THEN r.out.target[k] ELSE r.out.source[k]

\* n points of step 1 from floor(-n / 2) to floor(n / 2) - 1
CenteredAsSpecified(g, n) ==
    /\ Len(g) = n
    /\ 2 * g[1] \in {-n, -n - 1}
    /\ 2 * (g[n] + 1) \in {n, n - 1}
    /\ \A i \in 1..(n - 1) : g[i + 1] = g[i] + 1

ContainsZero(g) == \E i \in 1..Len(g) : g[i] = 0

\* C12: for every axis length n >= 1 the centered grid of orthogonalize and of
\* detector_frame has n integer points of step 1 from floor(-n/2) to
\* floor(n/2) - 1, and the grid scaled by the voxel size is the same grid times
\* the voxel size, in both directions; the grid contains 0 exactly when n >= 2
\* (for n = 1 its only point is -1)
C12_CenteredGrid ==
    res.op \in {"orthogonalize", "detector_frame"} =>
        \A k \in 1..3 :
            LET n == res.args.shape[k]
            IN  /\ CenteredAsSpecified(UnitGrid(res, k), n)
                /\ VoxelGrid(res, k) = ScaledGrid(UnitGrid(res, k), res.args.voxel_size[k])
                /\ ContainsZero(UnitGrid(res, k)) <=> n >= 2

\* both methods have built the grids of an array with an axis of length 1, an
\* odd axis and an even axis
C12_Witness ==
    /\ res.op = "detector_frame"
    /\ res.args.shape = <<1, 3, 4>>
    /\ res.args.voxel_size = <<1, 2, 3>>
    /\ res.out.target = << <<-1>>, <<-2, -1, 0>>, <<-2, -1, 0, 1>> >>
    /\ res.out.source = << <<-1>>, <<-4, -2, 0>>, <<-6, -3, 0, 3>> >>

\* C12 as stated: as above, and the grid contains 0 for every n >= 1
C12_CenteredGridContainsZero ==
    res.op \in {"orthogonalize", "detector_frame"} =>
        \A k \in 1..3 :
            /\ CenteredAsSpecified(UnitGrid(res, k), res.args.shape[k])
            /\ VoxelGrid(res, k) = ScaledGrid(UnitGrid(res, k), res.args.voxel_size[k])
            /\ ContainsZero(UnitGrid(res, k))

\* the extent of the source grid on axis k, in half pixels
Extent(r, k, n) ==
    [lo |-> 2 * ((-n) \div 2) * r.args.voxel_size[k],
     hi |-> 2 * ((n \div 2) - 1) * r.args.voxel_size[k]]
Lengths(values) == <<Len(values), Len(values[1]), Len(values[1][1])>>
Outside(r, values) ==
    \E k \in 1..3 : \/ r.args.xi[k] < Extent(r, k, Lengths(values)[k]).lo
                    \/ r.args.xi[k] > Extent(r, k, Lengths(values)[k]).hi
\* the 1-based index of the grid point at xi on axis k, 0 when xi is not one
GridIndex(r, k, n) ==
    LET off == r.args.xi[k] - Extent(r, k, n).lo
        step == 2 * r.args.voxel_size[k]
    IN  IF off >= 0 /\ off % step = 0 /\ off \div step < n THEN off \div step + 1 ELSE 0

\* C13: a voxel whose source coordinate is outside the extent of the source
\* grid on at least one axis gets 0, without an error and without
\* extrapolation; a voxel whose source coordinate is a grid point gets the
\* value of that grid point
C13_FillAndGridValues ==
    ret.op \in {"orthogonalize", "detector_frame"} =>
        LET at == [k \in 1..3 |-> GridIndex(ret, k, Lengths(data.values)[k])]
        IN  /\ ret.status = "ok"
            /\ Outside(ret, data.values) => ret.out.value = Num(0)
            /\ (\A k \in 1..3 : at[k] > 0)
                   => ret.out.value = Num(data.values[at[1]][at[2]][at[3]])

\* a voxel of detector_frame whose source coordinate is above the grid on the
\* y axis alone, where the linear extension of the array is not 0
C13_Witness ==
    /\ ret.op = "detector_frame"
    /\ ret.args.voxel_size = <<1, 2, 1>>
    /\ ret.args.xi = <<-1, 1, -2>>
    /\ Lengths(data.values) = <<2, 3, 2>>
    /\ data.values[1][3] = <<4, 7>>
    /\ ret.out.value = Num(0)

\* the initial_shape that orthogonalize settled on
ShapeUsed(r, v) == IF r.args.initial_shape = <<>> THEN v.shape ELSE r.args.initial_shape

\* C14: in an orthogonalize that completes, the recalculated parameters
\* satisfy nz * tilt = Nz * tilt_angle, ny * pixel_y = Ny * self.pixel_y and
\* nx * pixel_x = Nx * self.pixel_x; the transfer matrix built for the shape
\* of obj with them is the one built for initial_shape with the parameters of
\* the setup, and the voxel sizes of the sanity check are those of
\* initial_shape; with equal shapes the three parameters are those of the setup
C14_RescaledParameters ==
    (res.op = "orthogonalize" /\ res.status = "ok") =>
        LET shape0 == ShapeUsed(res, vol)
            used == rescaled(obj, vol.shape, shape0)
        IN  /\ Times(used.tilt, Num(vol.shape[1])) = Times(obj.tilt_angle, Num(shape0[1]))
            /\ Times(used.pixel_y, Num(vol.shape[2])) = Times(obj.pixel_y, Num(shape0[2]))
            /\ Times(used.pixel_x, Num(vol.shape[3])) = Times(obj.pixel_x, Num(shape0[3]))
            /\ SameMatrix(res.out.ortho_matrix,
                          update_coords(obj, shape0, obj.tilt_angle, obj.pixel_x,
                                        obj.pixel_y).matrix)
            /\ res.args.voxel_size = VoxelOmitted
                   => res.out.voxel_size.of = voxel_sizes(obj, shape0, AbsOf(obj.tilt_angle),
                                                          obj.pixel_x, obj.pixel_y).voxel
            /\ vol.shape = shape0
                   => /\ ~used.changed
                      /\ <<used.tilt, used.pixel_y, used.pixel_x>>
                             = <<obj.tilt_angle, obj.pixel_y, obj.pixel_x>>

\* an array of shape (2, 2, 2) cropped from (4, 2, 4) has been orthogonalized
\* with twice the tilt and twice the horizontal pixel size
C14_Witness ==
    /\ res.op = "orthogonalize"
    /\ res.status = "ok"
    /\ vol.shape = <<2, 2, 2>>
    /\ res.args.initial_shape = <<4, 2, 4>>
    /\ obj.tilt_angle = Num(-1)
    /\ rescaled(obj, vol.shape, res.args.initial_shape)
           = [changed |-> TRUE, tilt |-> Num(-2), pixel_y |-> Num(1), pixel_x |-> Num(4)]

\* C15: Setup.orthogonalize on a setup with a defined geometry returns the
\* voxel size it used: the one given by the caller (a single positive number or
\* three positive numbers) unchanged, and the computed sizes (dz, dy, dx) when
\* none is given
C15_VoxelSizeReturned ==
    (/\ res.op = "orthogonalize"
     /\ obj.cls = "Setup"
     /\ HasFormula(obj)
     /\ obj.inplane_angle.v # 0
     /\ obj.outofplane_angle.v # 0
     /\ res.args.kwargs = {"title"})
    => /\ res.status = "ok"
       /\ res.out.voxel_size
              = IF res.args.voxel_size = VoxelOmitted
                THEN [mean |-> FALSE,
                      of |-> voxel_sizes(obj, ShapeUsed(res, vol), AbsOf(obj.tilt_angle),
                                         obj.pixel_x, obj.pixel_y).voxel]
                ELSE res.args.voxel_size

\* a sequence of exactly three strictly positive integers
ThreePositive(array_shape) ==
    Len(array_shape) = 3 /\ \A k \in 1..3 : array_shape[k] > 0

\* C16: update_coords, voxel_sizes and orthogonalize_vector called with every
\* parameter set reject an array_shape that is not three strictly positive
\* integers with a parameter error (the ValueError of the unpacking or the
\* AssertionError of the check) and compute nothing from it
C16_ShapeValidated ==
    (/\ res.op \in {"update_coords", "voxel_sizes", "orthogonalize_vector"}
     /\ ~ThreePositive(res.args.array_shape)
     /\ \A a \in {"energy", "distance", "outofplane_angle", "inplane_angle"} : ~IsNone(obj[a])
     /\ ~IsNone(res.args.tilt_angle)
     /\ ~IsNone(res.args.pixel_x)
     /\ ~IsNone(res.args.pixel_y))
    => res.status \in {"ValueError", "AssertionError"}

\* the parameters of the setup that an operation consumes
ConsumedBy(op) ==
    CASE op \in {"update_coords", "voxel_sizes"} ->
             {"energy", "distance", "outofplane_angle", "inplane_angle"}
      [] op = "voxel_sizes_detector" -> {"energy", "distance"}
      [] op \in {"orthogonalize", "detector_frame"} ->
             {"energy", "distance", "outofplane_angle", "inplane_angle", "tilt_angle",
              "pixel_x", "pixel_y"}
      [] OTHER -> {}

Exceptions ==
    {"TypeError", "AttributeError", "AssertionError", "ValueError", "IndexError",
     "ZeroDivisionError", "LinAlgError", "Exception"}

\* C17: on a Setup with a consumed parameter still None, update_coords,
\* voxel_sizes, voxel_sizes_detector, orthogonalize and detector_frame end in
\* an exception and give no result (voxel_sizes_detector, the one method that
\* can complete on a Setup, in a TypeError unless the shape fails first); the
\* wavelength is None exactly when the energy is None
C17_UnsetParameterFails ==
    obj.cls = "Setup" =>
        /\ IsNone(wavelength(obj)) <=> IsNone(obj.energy)
        /\ (\E a \in ConsumedBy(res.op) : IsNone(obj[a]))
               => /\ res.status \in Exceptions
                  /\ res.out = [res.out EXCEPT !.status = res.status]
                  /\ res.op = "voxel_sizes_detector"
                         => /\ res.out.voxel = <<>>
                            /\ Len(res.args.array_shape) = 3 => res.status = "TypeError"
                  /\ res.op = "update_coords" => res.out.matrix = NoMatrix

\* voxel_sizes_detector was called with a complete set of arguments on a Setup
\* whose distance alone is unset
C17_Witness ==
    /\ obj.cls = "Setup"
    /\ IsNone(obj.distance)
    /\ \A a \in {"energy", "outofplane_angle", "inplane_angle", "tilt_angle", "pixel_x",
                 "pixel_y"} : ~IsNone(obj[a])
    /\ res.op = "voxel_sizes_detector"
    /\ res.args = [array_shape |-> <<2, 2, 4>>, tilt_angle |-> Num(1), pixel_x |-> Num(1),
                   pixel_y |-> Num(1)]
    /\ res.status = "TypeError"

\* the pixel numbers of a detector for the arguments of the call
PixelsFor(args) ==
    LET previous_binning == IF "previous_binning" \in args.kwargs.keys
                               /\ args.kwargs.previous_binning # <<>>
                            THEN args.kwargs.previous_binning ELSE <<1, 1, 1>>
        given(key) == IF key \in args.kwargs.keys THEN args.kwargs[key] ELSE 0
        full(key) == IF given(key) # 0 THEN given(key) ELSE catalog(args.name)[key]
    IN  [y |-> full("nb_pixel_y") \div previous_binning[2],
         x |-> full("nb_pixel_x") \div previous_binning[3],
         previous_binning |-> previous_binning]

\* the arguments of a Detector call apart from roi and sum_roi are valid
DetectorCallValid(r) ==
    /\ r.op = "Detector"
    /\ r.args.name \in {"Maxipix", "Eiger2M", "Eiger4M", "Timepix", "Merlin"}
    /\ r.args.kwargs.keys \subseteq {"is_series", "nb_pixel_x", "nb_pixel_y", "previous_binning"}

\* C18: Detector(...) succeeds only when roi and sum_roi have 0 or 4
\* elements; four elements are stored as given, an empty value becomes
\* [0, nb_pixel_y, 0, nb_pixel_x] with the pixel numbers divided by the
\* previous binning, another length raises ValueError; a constructed Detector
\* has roi and sum_roi of four elements
C18_RegionsOfInterest ==
    DetectorCallValid(ret) =>
        /\ ret.status = "ok" <=> (Len(ret.args.roi) \in {0, 4} /\ Len(ret.args.sum_roi) \in {0, 4})
        /\ ret.status # "ok" => (ret.status = "ValueError" /\ ret.out.o = NoObject)
        /\ ret.status = "ok" =>
               LET full == <<0, PixelsFor(ret.args).y, 0, PixelsFor(ret.args).x>>
               IN  /\ Len(ret.out.o.roi) = 4 /\ Len(ret.out.o.sum_roi) = 4
                   /\ ret.out.o.roi = IF ret.args.roi = <<>> THEN full ELSE ret.args.roi
                   /\ ret.out.o.sum_roi
                          = IF ret.args.sum_roi = <<>> THEN full ELSE ret.args.sum_roi

\* an Eiger2M reloaded with a previous binning (5, 2, 3) was constructed with
\* an empty roi and a sum_roi of four elements
C18_Witness ==
    /\ ret.op = "Detector"
    /\ ret.status = "ok"
    /\ ret.args.name = "Eiger2M"
    /\ ret.args.kwargs.keys = {"previous_binning"}
    /\ ret.args.kwargs.previous_binning = <<5, 2, 3>>
    /\ ret.out.o.roi = <<0, 1082, 0, 343>>
    /\ ret.out.o.sum_roi = <<0, 100, 10, 90>>

\* C19: the pixel sizes of a constructed Detector are the pixel size of the
\* detector times previous_binning[1] * binning[1] (vertical) and times
\* previous_binning[2] * binning[2] (horizontal); the factors of index 0 play
\* no part and a previous_binning that is not given counts as (1, 1, 1)
C19_BinnedPixelSizes ==
    (ret.op = "Detector" /\ ret.status = "ok") =>
        LET pitch == IF ret.args.name \in {"Eiger2M", "Eiger4M"} THEN 75 ELSE 55
            previous == IF "previous_binning" \in ret.args.kwargs.keys
                        THEN ret.args.kwargs.previous_binning ELSE <<>>
            py == IF previous = <<>> THEN 1 ELSE previous[2]
            px == IF previous = <<>> THEN 1 ELSE previous[3]
        IN  /\ ret.out.o.pixelsize_y = pitch * py * ret.args.binning[2]
            /\ ret.out.o.pixelsize_x = pitch * px * ret.args.binning[3]

\* a Maxipix with previous binning (5, 2, 3) and binning (3, 2, 4): 55 um
\* becomes 220 um vertically and 660 um horizontally
C19_Witness ==
    /\ ret.op = "Detector"
    /\ ret.status = "ok"
    /\ ret.args.name = "Maxipix"
    /\ ret.args.binning = <<3, 2, 4>>
    /\ "previous_binning" \in ret.args.kwargs.keys
    /\ ret.args.kwargs.previous_binning = <<5, 2, 3>>
    /\ ret.out.o.pixelsize_y = 220
    /\ ret.out.o.pixelsize_x = 660

\* C20: Setup(...), Detector(...), Setup.orthogonalize and
\* Setup.detector_frame raise when given a keyword they do not know, before
\* the geometry is computed: no object is constructed and no matrix is built
\* (orthogonalize raises Exception as its first statement, detector_frame
\* after the check of voxel_size); Detector(...) raises on a name outside
\* Maxipix, Eiger2M, Eiger4M, Timepix, Merlin, so no Detector has another name
C20_UnknownKeywordRejected ==
    /\ (ret.op = "Detector" /\ ret.args.kwargs.keys \ {"is_series", "nb_pixel_x",
                                                        "nb_pixel_y", "previous_binning"} # {})
           => (ret.status = "Exception" /\ ret.out.o = NoObject)
    /\ (ret.op = "Detector" /\ ret.status = "ok")
           => ret.out.o.name \in {"Maxipix", "Eiger2M", "Eiger4M", "Timepix", "Merlin"}
    /\ (ret.op = "Detector" /\ ret.args.name = "Pilatus")
           => (ret.status \in {"ValueError", "Exception"} /\ ret.out.o = NoObject)
    /\ (res.op = "Setup" /\ "colour" \in res.args.kwargs)
           => (res.status = "Exception" /\ obj = NoObject)
    /\ (res.op = "orthogonalize" /\ obj.cls = "Setup" /\ "colour" \in res.args.kwargs)
           => (res.status = "Exception" /\ res.out.ortho_matrix = NoMatrix)
    /\ (res.op = "detector_frame" /\ obj.cls = "Setup" /\ "colour" \in res.args.kwargs)
           => /\ res.status \in {"Exception", "AssertionError"}
              /\ res.status = "AssertionError"
                     => \E k \in 1..3 : res.args.voxel_size.of[k].v <= 0
              /\ res.out.ortho_matrix = NoMatrix

\* detector_frame was called with an unknown keyword on a constructed Setup
\* after a Detector call with an unknown keyword had raised
C20_Witness ==
    /\ obj.cls = "Setup"
    /\ res.op = "detector_frame"
    /\ res.args.kwargs = {"colour"}
    /\ res.status = "Exception"
    /\ ret.op = "Detector"
    /\ "colour" \in ret.args.kwargs.keys
    /\ ret.status = "Exception"

\* C21: mask_detector receives and returns independent arrays: after a
\* successful call the caller's data and mask arrays hold the values they had
\* before the call, whichever of flatfield, background and hotpixels were
\* supplied.
C21_CallerArraysUntouched ==
    (ret.op = "mask_detector" /\ ret.status = "ok")
    => /\ data = ret.in_data
       /\ mask = ret.in_mask

\* the attributes that are set once, at construction
SetOnceAttributes ==
    {"beamline", "energy", "distance", "pixel_x", "pixel_y", "rocking_angle",
     "beam_direction"}

\* C22: after a Setup has been constructed only outofplane_angle, inplane_angle
\* and tilt_angle can change: no operation on the object changes beamline,
\* energy, distance, pixel_x, pixel_y, rocking_angle or beam_direction.
C22_SetOnce ==
    [][(obj.cls = "Setup" /\ obj'.cls = "Setup")
          => \A attr \in SetOnceAttributes : obj'[attr] = obj[attr]]_vars

\* the construction matrix of the last call, and of the same call with the
\* sign of tilt_angle flipped
Constructed(r, tilt_angle) ==
    mymatrix(obj, r.args.array_shape, tilt_angle, r.args.pixel_x, r.args.pixel_y)
Flipped(x) == Quot(-x.v, x.d)

\* C23: applying M -> 2*pi*inverse(M)^T twice gives M back, so rec_matrix in
\* voxel_sizes is the construction matrix mymatrix; the returned triple is
\* 2*pi over the norms of its rows 2, 1, 0 (z, y, x), and it is the same when
\* the sign of tilt_angle is flipped.
C23_InvolutionAndRowNorms ==
    (res.op = "voxel_sizes" /\ res.status = "ok")
    => /\ res.out.mymatrix = AsArray(Constructed(res, res.args.tilt_angle))
       /\ res.out.rec_matrix = res.out.mymatrix
       /\ \A k \in 1..3 :
             res.out.voxel[k] =
                Quot(res.out.mymatrix.den * res.out.mymatrix.den,
                     NormSq(res.out.mymatrix.m[4 - k]))
       /\ voxel_sizes_arrays(Constructed(res, Flipped(res.args.tilt_angle))).voxel
             = res.out.voxel

C23_Witness ==
    /\ res.op = "voxel_sizes"
    /\ res.status = "ok"
    /\ obj.beamline = Str("SIXS_2019")
    /\ obj.inplane_angle = Num(1)
    /\ obj.outofplane_angle = Num(2)
    /\ res.args.tilt_angle = Num(-1)
    /\ res.args.array_shape = <<2, 1, 1>>
    /\ res.out.transfer_matrix.pi = 0
    /\ res.out.transfer_matrix.m # res.out.mymatrix.m
    /\ res.out.transfer_matrix.m # Transpose(res.out.transfer_matrix.m)
    /\ res.out.voxel[1] # res.out.voxel[3]

\* the sizes agree with those of voxel_sizes, which are in units of 125
C23_SameAsVoxelSizes ==
    (res.op = "voxel_sizes" /\ res.status = "ok")
    => LET v == voxel_sizes(obj, res.args.array_shape, res.args.tilt_angle, res.args.pixel_x, res.args.pixel_y)
       IN  /\ v.status = "ok"
           /\ \A k \in 1..3 : res.out.voxel[k] = Times(v.voxel[k], Num(15625))

\* None or a strictly positive number
NoneOrPositive(x) == IsNone(x) \/ (IsNumber(x) /\ x.d # 0 /\ x.v > 0)

\* C24: after any sequence of attribute assignments on a constructed Setup,
\* energy, distance, pixel_x and pixel_y are each None or strictly positive,
\* rocking_angle is None, "outofplane" or "inplane", and beam_direction is a
\* non-zero 3-vector of unit norm; a rejected assignment changes no attribute.
C24_AttributesValid ==
    /\ [](obj.cls = "Setup"
            => /\ \A attr \in PositiveAttributes : NoneOrPositive(obj[attr])
               /\ obj.rocking_angle \in {NoneV, Str("outofplane"), Str("inplane")}
               /\ Len(obj.beam_direction.vec) = 3
               /\ obj.beam_direction.norm > 0
               /\ NormSq(obj.beam_direction.vec)
                     = obj.beam_direction.norm * obj.beam_direction.norm)
    /\ [][(obj.cls = "Setup" /\ res'.op = "assign" /\ res'.status # "ok")
             => obj' = obj]_vars

\* C25: update_coords, voxel_sizes, voxel_sizes_detector, orthogonalize_vector,
\* orthogonalize and detector_frame leave every attribute of the object
\* unchanged, whether they return or raise; the tilt and pixel sizes that
\* orthogonalize recalculates for a cropped array are local to the call, and a
\* following detector_frame works with tilt_angle, pixel_x and pixel_y of the
\* object.
C25_AttributesUntouched ==
    /\ [][obj' = obj]_vars
    /\ []((res.op = "detector_frame" /\ res.status = "ok")
            => vol.framed_with
                  = update_coords(obj, vol.shape, obj.tilt_angle, obj.pixel_x, obj.pixel_y).matrix)

C25_Witness ==
    /\ res.op = "detector_frame"
    /\ res.status = "ok"
    /\ vol.frame = "detector"
    /\ vol.orthogonalized_with # NoMatrix
    /\ ~SameMatrix(vol.orthogonalized_with, vol.framed_with)
    /\ obj.tilt_angle = Num(-1)
    /\ obj.pixel_x = Num(2)

\* the combinations that match no formula branch of update_coords
NoFormula(o) ==
    \/ Unsupported(o)
    \/ IsNone(o.rocking_angle)
    \/ o.beamline \notin {Str(b) : b \in Beamlines}

\* every number that the call reads is set
NumbersSet(o) ==
    \A attr \in {"energy", "distance", "outofplane_angle", "inplane_angle",
                 "tilt_angle", "pixel_x", "pixel_y"} : IsNumber(o[attr])
ShapeCallComplete(r) ==
    /\ r.op \in {"update_coords", "voxel_sizes", "orthogonalize_vector"}
    /\ Len(r.args.array_shape) = 3
    /\ IsNumber(r.args.tilt_angle)
    /\ IsNumber(r.args.pixel_x)
    /\ IsNumber(r.args.pixel_y)
FrameCallComplete(r) ==
    /\ r.op \in {"orthogonalize", "detector_frame"}
    /\ r.args.kwargs \subseteq {"title"}
    /\ r.op = "detector_frame"
          => \A k \in 1..Len(r.args.voxel_size.of) : r.args.voxel_size.of[k].v > 0

\* C26: for every combination that matches no formula branch, the three
\* columns of the construction matrix stay zero and update_coords ends in the
\* error of the matrix inversion; voxel_sizes, orthogonalize_vector,
\* orthogonalize and detector_frame end in that error too and return nothing.
C26_NoFormulaFailsAtInversion ==
    (/\ obj.cls # "none"
     /\ NoFormula(obj)
     /\ NumbersSet(obj)
     /\ ShapeCallComplete(res) \/ FrameCallComplete(res))
    => /\ res.status = "LinAlgError"
       /\ ShapeCallComplete(res)
             => mymatrix(obj, res.args.array_shape, res.args.tilt_angle,
                         res.args.pixel_x, res.args.pixel_y).m
                   = FromColumns(ZeroColumn, ZeroColumn, ZeroColumn)

\* the same on a SetupPostprocessing, where update_coords reaches the inversion
C26_PostprocessingFailsAtInversion ==
    obj.cls = "SetupPostprocessing" => C26_NoFormulaFailsAtInversion

C26_PostprocessingWitness ==
    /\ obj.cls = "SetupPostprocessing"
    /\ obj.beamline = Str("BM02")
    /\ obj.rocking_angle = Str("inplane")
    /\ res.op = "orthogonalize_vector"
    /\ ShapeCallComplete(res)
    /\ res.status = "LinAlgError"

\* C27: Setup.detector_frame goes on to the resampling only with three
\* strictly positive voxel sizes: a voxel size with a zero or negative
\* component, given as a single number or as three numbers, is rejected by the
\* check of the argument, before the transfer matrix is computed.
C27_VoxelSizeChecked ==
    (/\ res.op = "detector_frame"
     /\ obj.cls = "Setup"
     /\ \E k \in 1..Len(res.args.voxel_size.of) : res.args.voxel_size.of[k].v <= 0)
    => res.status = "AssertionError"

\* the part that holds: three numbers with a component <= 0 are rejected by the
\* assertion
C27_TupleChecked ==
    (/\ res.op = "detector_frame"
     /\ obj.cls = "Setup"
     /\ ~res.args.voxel_size.mean
     /\ \E k \in 1..Len(res.args.voxel_size.of) : res.args.voxel_size.of[k].v <= 0)
    => res.status = "AssertionError"

\* C28: mask_detector never clears a mask entry: for every detector, each
\* pixel whose mask is 1 before the call has mask 1 in the returned mask, and
\* every pixel flagged 1 in the hotpixels array has mask 1 and data 0 in the
\* result.
C28_MaskOnlyGrows ==
    (ret.op = "mask_detector" /\ ret.status = "ok")
    => \A p \in DOMAIN ret.out_mask.val :
          /\ ret.in_mask.val[p] = 1 => ret.out_mask.val[p] = 1
          /\ (ret.hotpixels # NoArray /\ ret.hotpixels.val[p] = 1)
                => (ret.out_mask.val[p] = 1 /\ ret.out_data.val[p] = 0)

C28_Witness ==
    /\ ret.op = "mask_detector"
    /\ ret.status = "ok"
    /\ det = "Timepix"
    /\ ret.hotpixels # NoArray
    /\ ret.in_mask.val[<<0, 0>>] = 1
    /\ ret.in_mask.val[<<290, 290>>] = 0
    /\ ret.in_data.val[<<290, 290>>] = 3
    /\ ret.out_mask.val[<<0, 0>>] = 1
    /\ ret.out_mask.val[<<290, 290>>] = 1
    /\ ret.out_data.val[<<290, 290>>] = 0

\* +1 for detector_hor "y+", -1 for "y-"
HorSign(o) == IF detector_hor(o) = "y+" THEN 1 ELSE -1
\* the beamlines whose in-plane detector rotation is clockwise
Clockwise == {Str("ID01"), Str("NANOMAX")}
\* the same object at the other SIXS name
SixsTwin(o) ==
    [o EXCEPT !.beamline = IF o.beamline = Str("SIXS_2018") THEN Str("SIXS_2019")
                           ELSE Str("SIXS_2018")]

\* C29: for every beamline the factor of the x component of exit_wavevector is
\* inplane_coeff times the sign of detector_hor (+1 for "y+", -1 for "y-"); it
\* is negative exactly for the clockwise beamlines ID01 and NANOMAX; SIXS_2018
\* and SIXS_2019 give the same detector_hor, detector_ver, coefficients and
\* exit wavevector.
C29_SignConventionsAgree ==
    /\ (res.op = "exit_wavevector" /\ res.status = "ok")
          => /\ inplane_coeff(obj).status = "ok"
             /\ res.kout[3]
                   = Over(Num(inplane_coeff(obj).val * HorSign(obj)
                              * Sin5(obj.inplane_angle) * Cos5(obj.outofplane_angle)),
                          wavelength(obj))
             /\ obj.inplane_angle.v # 0
                   => (res.kout[3].v < 0 <=> obj.beamline \in Clockwise)
    /\ (res.op # "none" /\ obj.beamline \in {Str("SIXS_2018"), Str("SIXS_2019")})
          => /\ detector_hor(SixsTwin(obj)) = detector_hor(obj)
             /\ detector_ver(SixsTwin(obj)) = detector_ver(obj)
             /\ inplane_coeff(SixsTwin(obj)) = inplane_coeff(obj)
             /\ outofplane_coeff(SixsTwin(obj)) = outofplane_coeff(obj)
             /\ exit_wavevector(SixsTwin(obj)) = exit_wavevector(obj)

C29_Witness ==
    /\ res.op = "exit_wavevector"
    /\ res.status = "ok"
    /\ obj.beamline = Str("NANOMAX")
    /\ obj.inplane_angle = Num(1)
    /\ obj.outofplane_angle = Num(2)
    /\ obj.energy = Num(2)
    /\ res.kout[3] = Num(-18)

\* column j of a matrix given by its rows
Column(m, j) == <<m[1][j], m[2][j], m[3][j]>>
Cross(a, b) ==
    <<a[2] * b[3] - a[3] * b[2], a[3] * b[1] - a[1] * b[3], a[1] * b[2] - a[2] * b[1]>>
\* the detector in the direct beam
DirectBeam(o) == o.inplane_angle = Num(0) /\ o.outofplane_angle = Num(0)

\* C30: with inplane_angle 0 and outofplane_angle 0 the construction matrix is
\* singular for every beamline, rocking mode and grazing angle: the
\* rocking-step column is zero or parallel to the horizontal-pixel column; so
\* update_coords, voxel_sizes, orthogonalize and detector_frame end in an
\* error and return nothing.
C30_DirectBeamSingular ==
    (/\ obj.cls # "none"
     /\ DirectBeam(obj)
     /\ res.op \in {"update_coords", "voxel_sizes", "orthogonalize", "detector_frame"})
    => /\ res.status # "ok"
       /\ res.op \in {"update_coords", "voxel_sizes"}
             => /\ Det(Constructed(res, res.args.tilt_angle).m) = 0
                /\ Cross(Column(Constructed(res, res.args.tilt_angle).m, 3),
                         Column(Constructed(res, res.args.tilt_angle).m, 1)) = ZeroColumn
       /\ (obj.cls = "SetupPostprocessing" /\ res.op \in {"update_coords", "voxel_sizes"})
             => res.status = "LinAlgError"

C30_Witness ==
    /\ obj.cls = "SetupPostprocessing"
    /\ DirectBeam(obj)
    /\ obj.beamline = Str("SIXS_2018")
    /\ obj.rocking_angle = Str("inplane")
    /\ obj.grazing_angle = Num(1)
    /\ res.op = "update_coords"
    /\ res.args.tilt_angle = Num(1)
    /\ res.status = "LinAlgError"
    /\ Column(Constructed(res, res.args.tilt_angle).m, 3) # ZeroColumn

====
